---- MODULE Spec2Model ----
(***************************************************************************)
(* Model of the per-room coordinator TldrawDurableObject                   *)
(* (src/worker/TldrawDurableObject.ts): identity binding, connection       *)
(* admission, memoized hydration of the TLSocketRoom and the throttled     *)
(* write-back of snapshots to the R2 bucket.                               *)
(*                                                                         *)
(* One state is one point between two turns of the object's event loop.    *)
(* A turn runs the synchronous code of a handler up to its next await.     *)
(* A continuation of an already settled promise is a microtask: it runs    *)
(* before any other event is delivered (MicrotaskPending).                 *)
(* Time is counted in ticks; the throttle interval of 10_000 ms is         *)
(* THROTTLE_MS \div TickMs ticks.  Timers fire at the tick they are due.   *)
(***************************************************************************)
EXTENDS Integers, Sequences, FiniteSets, TLC

\* ---------------------------------------------------------------- bounds
NReq == 2
MaxMut == 3
MaxTime == 6
MaxRestart == 1
TickMs == 5000

\* ------------------------------------------------------ program constants
THROTTLE_MS == 10000

wait == THROTTLE_MS \div TickMs

RoomIds == {"a", "b"}
NoSession == <<>>
NoId == "null"
Absent == <<>>
NoEngine == [clock |-> -1, documents |-> <<>>]
Reqs == 1..NReq
\* every client has a session id of its own
SessionId(r) == <<"session", r>>
SessionIds == {SessionId(r) : r \in Reqs}
Undefined == -1
NoReg == [inst |-> -1, id |-> 0, key |-> <<>>]
NoFound == [rejected |-> FALSE, putFailed |-> FALSE]

VARIABLES
  storage,      \* ctx.storage: value of the durable key 'roomId' (NoId when unset)
  roomId,       \* this.roomId
  gate,         \* request inside ctx.blockConcurrencyWhile, 0 when the input gate is open
  roomPromise,  \* this.roomPromise: "null", "pending", "resolved" or "rejected"
  hydr,         \* position of the hydration: "none", "get", "json", "done"
  hydrKey,      \* key the hydration reads
  hydrBlob,     \* body returned by r2.get
  hydrSrc,      \* snapshot whose text r2.get returned (NoEngine: no object)
  engine,       \* state of the TLSocketRoom, NoEngine before it is constructed
  engineId,     \* number of the engine constructed last (0: none yet)
  sessions,     \* session ids registered with the engine
  pc,           \* position of each request
  reqKind,      \* "connect", "log" or "direct"
  reqRoom,      \* request.params.roomId
  reqSid,       \* request.query.sessionId
  found,        \* what the request's handleConnect found: a rejected roomPromise, putFailed
  reqBody,      \* body of a log-error request: "json" or "malformed"
  status,       \* HTTP status of the response, 0 while there is none
  reason,       \* message of an error response, "" when there is none
  socket,       \* the request created and accepted a WebSocketPair
  servedId,     \* room id getRoom resolved for the request
  regEngine,    \* engine the request's session was registered with (NoReg: none)
  throttle,     \* state of the lodash throttle around schedulePersistToR2
  runs,         \* invocations of the throttled function still in flight, oldest first
  r2,           \* bucket: blob stored under rooms/{id}, Absent when none
  stored,       \* snapshot whose text is stored under each key (NoEngine: none)
  now,          \* clock
  lastRunStart, \* time the current instance last started a run, Undefined: never
  runGap,       \* ticks between the last two run starts, Undefined: fewer than two
  lastSnap,     \* room state the instance last loaded or serialized (NoEngine: none)
  gets,         \* r2.get calls of the current instance
  engines,      \* engines constructed by the current instance
  mutations,    \* mutations accepted so far
  putFailed,    \* an r2.put issued by the current instance was rejected
  restarts,     \* restarts so far
  pointer,      \* client: the pointing device and the gesture in progress
  toolbar,      \* client: drag state, target and listeners of the Toolbar
  sidebar,      \* client: drag state, refs and listeners of useDragAndDrop
  poll,         \* client: useGlobalEditor and window.tldrawEditor
  checklist     \* client: props of a checklist shape, NoShape before it is created

vars == <<storage, roomId, gate, roomPromise, hydr, hydrKey, hydrBlob, hydrSrc, engine,
          engineId, sessions, pc, reqKind, reqRoom, reqSid, reqBody, found, status, reason,
          socket,
          servedId, regEngine, throttle, runs, r2, stored, now, lastRunStart,
          runGap, lastSnap, gets, engines,
          mutations, putFailed, restarts,
          pointer, toolbar, sidebar, poll, checklist>>

\* The variables of the browser client; the coordinator never touches them.
clientVars == <<pointer, toolbar, sidebar, poll, checklist>>

\* ------------------------------------------------------------ conversions
\* Variant: the parser loses the last document of the text.
ParseJsonLossy(blob) ==
  [clock |-> Head(blob),
   documents |-> IF Len(blob) > 1 THEN SubSeq(blob, 2, Len(blob) - 1) ELSE <<>>]

\* JSON.stringify(room.getCurrentSnapshot()): the text is a flat token list
Stringify(snapshot) == <<snapshot.clock>> \o snapshot.documents

\* roomFromBucket.json()
ParseJson(blob) == [clock |-> Head(blob), documents |-> Tail(blob)]

\* new TLSocketRoom({ initialSnapshot }): empty room when undefined
EmptyRoom == [clock |-> 0, documents |-> <<>>]

\* rooms/${roomId}
RoomKey(id) == <<"rooms", id>>

Keys == {RoomKey(id) : id \in RoomIds}

\* ------------------------------------------------- lodash throttle(func, wait)
\* throttle(func, wait) is debounce(func, wait, {leading: true, trailing: true,
\* maxWait: wait}); the operators below are the closures of that debounce.
\* Each returns the new closure state and whether func was invoked.
ThrottleInit == [lastArgs |-> FALSE, timerId |-> FALSE, timerDue |-> 0,
                 lastCallTime |-> Undefined, lastInvokeTime |-> 0]

shouldInvoke(th, time) ==
  \/ th.lastCallTime = Undefined
  \/ time - th.lastCallTime >= wait
  \/ time - th.lastCallTime < 0
  \/ time - th.lastInvokeTime >= wait

remainingWait(th, time) ==
  LET timeWaiting == wait - (time - th.lastCallTime)
      maxRemaining == wait - (time - th.lastInvokeTime)
  IN  IF timeWaiting < maxRemaining THEN timeWaiting ELSE maxRemaining

invokeFunc(th, time) ==
  [th EXCEPT !.lastArgs = FALSE, !.lastInvokeTime = time]

leadingEdge(th, time) ==
  invokeFunc([th EXCEPT !.lastInvokeTime = time, !.timerId = TRUE,
                        !.timerDue = time + wait], time)

\* Variant: a throttle without the leading call ({leading: false}).
debouncedNoLeading(th, time) ==
  LET isInvoking == shouldInvoke(th, time)
      called == [th EXCEPT !.lastArgs = TRUE, !.lastCallTime = time]
  IN  IF isInvoking /\ ~th.timerId
        THEN [th |-> [called EXCEPT !.lastInvokeTime = time, !.timerId = TRUE,
                                    !.timerDue = time + wait],
              invoke |-> FALSE]
      ELSE IF isInvoking
        THEN [th |-> invokeFunc([called EXCEPT !.timerDue = time + wait], time),
              invoke |-> TRUE]
      ELSE IF ~th.timerId
        THEN [th |-> [called EXCEPT !.timerId = TRUE, !.timerDue = time + wait],
              invoke |-> FALSE]
      ELSE [th |-> called, invoke |-> FALSE]

\* Variant: a debounce without maxWait, every call restarts the timer.
debouncedNoMaxWait(th, time) ==
  LET isInvoking == shouldInvoke(th, time)
      called == [th EXCEPT !.lastArgs = TRUE, !.lastCallTime = time]
  IN  IF isInvoking /\ ~th.timerId
        THEN [th |-> leadingEdge(called, time), invoke |-> TRUE]
      ELSE [th |-> [called EXCEPT !.timerId = TRUE, !.timerDue = time + wait],
            invoke |-> FALSE]

debounced(th, time) ==
  LET isInvoking == shouldInvoke(th, time)
      called == [th EXCEPT !.lastArgs = TRUE, !.lastCallTime = time]
  IN  IF isInvoking /\ ~th.timerId
        THEN [th |-> leadingEdge(called, time), invoke |-> TRUE]
      ELSE IF isInvoking
        THEN [th |-> invokeFunc([called EXCEPT !.timerDue = time + wait], time),
              invoke |-> TRUE]
      ELSE IF ~th.timerId
        THEN [th |-> [called EXCEPT !.timerId = TRUE, !.timerDue = time + wait],
              invoke |-> FALSE]
      ELSE [th |-> called, invoke |-> FALSE]

\* Variant: a throttle without the trailing call.
trailingEdgeOff(th, time) ==
  [th |-> [th EXCEPT !.timerId = FALSE, !.timerDue = 0, !.lastArgs = FALSE],
   invoke |-> FALSE]

trailingEdge(th, time) ==
  LET cleared == [th EXCEPT !.timerId = FALSE, !.timerDue = 0]
  IN  IF th.lastArgs
        THEN [th |-> invokeFunc(cleared, time), invoke |-> TRUE]
        ELSE [th |-> cleared, invoke |-> FALSE]

timerExpired(th, time) ==
  IF shouldInvoke(th, time)
    THEN trailingEdge(th, time)
    ELSE [th |-> [th EXCEPT !.timerDue = time + remainingWait(th, time)],
          invoke |-> FALSE]

\* ------------------------------------------------------------------ state
TypeOK ==
  /\ storage \in RoomIds \cup {NoId}
  /\ roomId \in RoomIds \cup {NoId}
  /\ gate \in 0..NReq
  /\ roomPromise \in {"null", "pending", "resolved", "rejected"}
  /\ hydr \in {"none", "get", "json", "done", "failed"}
  /\ sessions \subseteq SessionIds
  /\ pc \in [Reqs -> {"new", "binding", "bound", "awaitRoom", "logJson", "done", "aborted"}]
  /\ status \in [Reqs -> {0, 101, 200, 400, 500}]
  /\ socket \in [Reqs -> BOOLEAN]
  /\ now \in 0..MaxTime
  /\ mutations \in 0..MaxMut
  /\ putFailed \in BOOLEAN
  /\ restarts \in 0..MaxRestart

\* ----------------------------------------------------------- client state
\* Browser side: the drag-to-create handlers of the Toolbar and of the sidebar's
\* useDragAndDrop, the sidebar's polling for window.tldrawEditor, and the
\* props of a checklist shape.  One state is one point between two events of
\* the page's event loop.

\* Items a checklist may hold before addItem is no longer offered.
MaxItems == 4

\* Distance a pointer has to exceed to turn pointing_item into dragging.
DRAG_DIST == 10

\* Polls of useGlobalEditor before it gives up.
maxPolls == 200

\* Screen points of pointer events: <<6, 8>> is exactly DRAG_DIST away from
\* <<0, 0>>, <<8, 8>> is farther.
Points == {<<0, 0>>, <<6, 8>>, <<8, 8>>}

\* Vec.Dist(p, q) > d, compared on the squares.
DistOver(p, q, d) ==
  (p[1] - q[1]) * (p[1] - q[1]) + (p[2] - q[2]) * (p[2] - q[2]) > d * d

\* shapeType of the entries of TOOLS and DRAGGABLE_COMPONENTS; NoItem is the
\* undefined an index outside the table yields.
TOOLS == {"select", "draw", "frame"}
DRAGGABLE_COMPONENTS == {"note", "checklist"}
SearchResults == {"yrkesbarometer"}
NoItem == "undefined"

\* The values of DragState.
DragIdle == [name |-> "idle"]
Pointing(item, p) == [name |-> "pointing_item", item |-> item, startPosition |-> p]
Dragging(item, p) == [name |-> "dragging", item |-> item, currentPosition |-> p]

\* No setDragState is waiting for a render.
NoUpdate == [name |-> "none"]

\* An event delivered to the page: its type, what it was about, where it was.
Ev(type, arg, at) == [type |-> type, arg |-> arg, at |-> at]

\* down: component whose item holds the pointer, "none" while it is up;
\* event: the event handled last; created: shapes passed to editor.createShapes
\* since the last pointer-down; cancelled: component that was in the dragging
\* state when Escape was pressed since the last pointer-down, "none" if none.
PointerInit ==
  [down |-> "none", event |-> Ev("none", "", <<0, 0>>), created |-> <<>>,
   cancelled |-> "none"]

\* dragState: the atom; target: the closure variable is set; move, key: the
\* pointermove and keydown listeners are attached; tool: editor's current tool.
ToolbarInit ==
  [dragState |-> DragIdle, target |-> FALSE, move |-> FALSE, key |-> FALSE,
   tool |-> "select"]

\* dragState: the rendered React state, which dragStateRef.current mirrors;
\* queued: the value of a setDragState not rendered yet; targetRef: the ref is
\* set; editor: useGlobalEditor returned the editor.
SidebarInit ==
  [dragState |-> DragIdle, queued |-> NoUpdate, targetRef |-> FALSE, move |-> FALSE,
   key |-> FALSE, editor |-> FALSE]

\* mounted: "no", "yes" or "gone"; pollCount: pollCountRef.current; timer: a
\* setTimeout(pollForEditor, 50) is pending; timeoutId: the closure variable is
\* set; cleanup: the effect returned its cleanup; editor: the hook's state;
\* tldrawEditor: window.tldrawEditor is set; errors: calls of logError.
PollInit ==
  [mounted |-> "no", pollCount |-> 0, timer |-> FALSE, timeoutId |-> FALSE,
   cleanup |-> FALSE, editor |-> FALSE, tldrawEditor |-> FALSE, errors |-> 0]

\* No checklist shape yet.
NoShape == [type |-> "none"]

\* State after the constructor ran on an instance with empty durable storage
\* and an empty bucket.
Init ==
  /\ storage = NoId
  /\ roomId = NoId
  /\ gate = 0
  /\ roomPromise = "null"
  /\ hydr = "none"
  /\ hydrKey = RoomKey(NoId)
  /\ hydrBlob = Absent
  /\ hydrSrc = NoEngine
  /\ engine = NoEngine
  /\ engineId = 0
  /\ sessions = {}
  /\ pc = [r \in Reqs |-> "new"]
  /\ reqKind = [r \in Reqs |-> "connect"]
  /\ reqRoom = [r \in Reqs |-> NoId]
  /\ reqSid = [r \in Reqs |-> NoSession]
  /\ reqBody = [r \in Reqs |-> "none"]
  /\ found = [r \in Reqs |-> NoFound]
  /\ status = [r \in Reqs |-> 0]
  /\ reason = [r \in Reqs |-> ""]
  /\ socket = [r \in Reqs |-> FALSE]
  /\ servedId = [r \in Reqs |-> NoId]
  /\ regEngine = [r \in Reqs |-> NoReg]
  /\ throttle = ThrottleInit
  /\ runs = <<>>
  /\ r2 = [k \in Keys |-> Absent]
  /\ stored = [k \in Keys |-> NoEngine]
  /\ lastRunStart = Undefined
  /\ runGap = Undefined
  /\ lastSnap = NoEngine
  /\ now = 0
  /\ gets = 0
  /\ engines = 0
  /\ mutations = 0
  /\ putFailed = FALSE
  /\ restarts = 0
  /\ pointer = PointerInit
  /\ toolbar = ToolbarInit
  /\ sidebar = SidebarInit
  /\ poll = PollInit
  /\ checklist = NoShape

\* A continuation of a settled promise is waiting to run: a request awaiting
\* the settled roomPromise, or a persistence run awaiting getRoom().
MicrotaskPending ==
  \/ \E r \in Reqs : pc[r] = "awaitRoom" /\ roomPromise \in {"resolved", "rejected"}
  \/ \E i \in 1..Len(runs) : runs[i].stage = "room"

\* The input gate lets a new event in: no blockConcurrencyWhile is running.
GateOpen == gate = 0

\* ------------------------------------------------------------- operations
reqVars == <<reqKind, reqRoom, reqSid, reqBody, found>>
hydrVars == <<roomPromise, hydr, hydrKey, gets>>
engineVars == <<hydrBlob, hydrSrc, engine, engineId, engines, sessions, regEngine>>
persistVars == <<throttle, runs, r2, stored, mutations, putFailed>>
clockVars == <<now, lastRunStart, runGap>>

\* Variant: blockConcurrencyWhile runs the callback without closing the gate.
blockConcurrencyWhileOpen(r) == 0

\* ctx.blockConcurrencyWhile(callback) called by request r: the input gate is
\* closed for every other event until the callback has completed.
blockConcurrencyWhile(r) == r

\* Variant: the handler binds without looking at this.roomId.
UnboundAlways == TRUE

\* Variant: the route never binds and calls handleConnect at once.
UnboundNever == FALSE

\* !this.roomId, line 39
Unbound == roomId = NoId

\* Variant: getRoom without the memo, every call hydrates.
getRoomNoMemo ==
  /\ roomPromise' = "pending"
  /\ hydr' = "get"
  /\ hydrKey' = RoomKey(roomId)
  /\ gets' = gets + 1

\* Variant: getRoom forgets a rejected memo and hydrates again.
getRoomRetry ==
  IF roomPromise \in {"null", "rejected"}
    THEN /\ roomPromise' = "pending"
         /\ hydr' = "get"
         /\ hydrKey' = RoomKey(roomId)
         /\ gets' = gets + 1
    ELSE UNCHANGED hydrVars

\* getRoom(), lines 95-112: the memo is filled by the first call, which starts
\* the hydration and issues r2.get in the same turn.
getRoom ==
  IF roomPromise = "null"
    THEN /\ roomPromise' = "pending"
         /\ hydr' = "get"
         /\ hydrKey' = RoomKey(roomId)
         /\ gets' = gets + 1
    ELSE UNCHANGED hydrVars

\* Variant: handleConnect without the sessionId check.
handleConnectNoCheck(r, sid) ==
  /\ socket' = [socket EXCEPT ![r] = TRUE]
  /\ servedId' = [servedId EXCEPT ![r] = roomId]
  /\ getRoom
  /\ pc' = [pc EXCEPT ![r] = "awaitRoom"]
  /\ UNCHANGED <<status, reason>>

\* Variant: handleConnect rejects a path roomId that is not the bound one.
handleConnectStrict(r, sid) ==
  IF ~(sid # NoSession) \/ reqRoom'[r] # roomId
    THEN /\ status' = [status EXCEPT ![r] = 400]
         /\ reason' = [reason EXCEPT ![r] =
              IF sid # NoSession THEN "Wrong roomId" ELSE "Missing sessionId"]
         /\ pc' = [pc EXCEPT ![r] = "done"]
         /\ UNCHANGED <<socket, servedId, hydrVars>>
    ELSE /\ socket' = [socket EXCEPT ![r] = TRUE]
         /\ servedId' = [servedId EXCEPT ![r] = roomId]
         /\ getRoom
         /\ pc' = [pc EXCEPT ![r] = "awaitRoom"]
         /\ UNCHANGED <<status, reason>>

\* Variant: getRoom without the check of this.roomId.
handleConnectNoRoomId(r, sid) ==
  IF ~(sid # NoSession)
    THEN /\ status' = [status EXCEPT ![r] = 400]
         /\ reason' = [reason EXCEPT ![r] = "Missing sessionId"]
         /\ pc' = [pc EXCEPT ![r] = "done"]
         /\ UNCHANGED <<socket, servedId, hydrVars>>
    ELSE /\ socket' = [socket EXCEPT ![r] = TRUE]
         /\ servedId' = [servedId EXCEPT ![r] = roomId]
         /\ getRoom
         /\ pc' = [pc EXCEPT ![r] = "awaitRoom"]
         /\ UNCHANGED <<status, reason>>

\* handleConnect(request) up to `await this.getRoom()`.
handleConnect(r, sid) ==
  IF ~(sid # NoSession)
    THEN /\ status' = [status EXCEPT ![r] = 400]
         /\ reason' = [reason EXCEPT ![r] = "Missing sessionId"]
         /\ pc' = [pc EXCEPT ![r] = "done"]
         /\ UNCHANGED <<socket, servedId, hydrVars>>
    ELSE /\ socket' = [socket EXCEPT ![r] = TRUE]
         /\ IF roomId = NoId
              THEN \* getRoom throws 'Missing roomId'; the router's catch answers
                   /\ status' = [status EXCEPT ![r] = 500]
                   /\ reason' = [reason EXCEPT ![r] = "Missing roomId"]
                   /\ pc' = [pc EXCEPT ![r] = "done"]
                   /\ UNCHANGED <<servedId, hydrVars>>
              ELSE /\ servedId' = [servedId EXCEPT ![r] = roomId]
                   /\ getRoom
                   /\ pc' = [pc EXCEPT ![r] = "awaitRoom"]
                   /\ UNCHANGED <<status, reason>>

\* Bookkeeping: the state in which handleConnect is called for request r.
Found(r) ==
  found' = [found EXCEPT ![r] = [rejected |-> roomPromise = "rejected",
                                 putFailed |-> putFailed]]

\* Requests are numbered in the order in which they are delivered.
NextReq(r) == pc[r] = "new" /\ \A q \in Reqs : q < r => pc[q] # "new"

\* GET /api/connect/:roomId, lines 38-46, first turn.
ConnectStart(r, rid, sid) ==
  /\ NextReq(r) /\ GateOpen /\ ~MicrotaskPending
  /\ reqKind' = [reqKind EXCEPT ![r] = "connect"]
  /\ reqRoom' = [reqRoom EXCEPT ![r] = rid]
  /\ reqSid' = [reqSid EXCEPT ![r] = sid]
  /\ UNCHANGED reqBody
  /\ IF Unbound
       THEN /\ gate' = blockConcurrencyWhile(r)
            /\ pc' = [pc EXCEPT ![r] = "binding"]
            /\ UNCHANGED <<found, status, reason, socket, servedId, hydrVars>>
       ELSE /\ handleConnect(r, sid)
            /\ Found(r)
            /\ UNCHANGED gate
  /\ UNCHANGED <<clientVars, storage, roomId, engineVars, persistVars, clockVars,
                 lastSnap, restarts>>

\* The callback of blockConcurrencyWhile, lines 41-42: the durable put, then
\* the assignment of this.roomId; the gate opens when the callback returns.
BindDone(r) ==
  /\ pc[r] = "binding"
  /\ storage' = reqRoom[r]
  /\ roomId' = reqRoom[r]
  /\ gate' = IF gate = r THEN 0 ELSE gate
  /\ pc' = [pc EXCEPT ![r] = "bound"]
  /\ UNCHANGED <<clientVars, reqVars, status, reason, socket, servedId, hydrVars, engineVars,
                 persistVars, clockVars,
                 lastSnap, restarts>>

\* Variant: this.roomId is assigned before the durable put, which then rejects.
BindFailPublished(r) ==
  /\ pc[r] = "binding"
  /\ gate' = 0
  /\ roomId' = reqRoom[r]
  /\ pc' = [q \in Reqs |-> IF pc[q] \in {"new", "done"} THEN pc[q] ELSE "aborted"]
  /\ UNCHANGED <<clientVars, storage, reqVars, status, reason, socket, servedId, hydrVars,
                 engineVars, persistVars, clockVars, lastSnap, restarts>>

\* storage.put rejects in the callback of blockConcurrencyWhile, line 41: the
\* callback throws, the host breaks the input gate and resets the object.
\* Every request in flight on the object is aborted, the one that was binding
\* included; the constructor of the fresh object reloads this.roomId from the
\* durable key, which was not written.  The other fields of an unbound object
\* still hold their initial values.
BindFail(r) ==
  /\ pc[r] = "binding"
  /\ gate' = 0
  /\ roomId' = storage
  /\ pc' = [q \in Reqs |-> IF pc[q] \in {"new", "done"} THEN pc[q] ELSE "aborted"]
  /\ UNCHANGED <<clientVars, storage, reqVars, status, reason, socket, servedId, hydrVars,
                 engineVars, persistVars, clockVars, lastSnap, restarts>>

\* Line 45 after the bind: return this.handleConnect(request).
ConnectAfterBind(r) ==
  /\ pc[r] = "bound" /\ GateOpen /\ ~MicrotaskPending
  /\ UNCHANGED <<reqKind, reqRoom, reqSid, reqBody>>
  /\ Found(r)
  /\ handleConnect(r, reqSid[r])
  /\ UNCHANGED <<clientVars, storage, roomId, gate, engineVars, persistVars,
                 clockVars, lastSnap, restarts>>

\* Variant: handleConnect registers the socket without awaiting getRoom().
ConnectResumeEarly(r) ==
  /\ pc[r] = "awaitRoom"
  /\ roomPromise \in {"pending", "resolved", "rejected"}
  /\ IF roomPromise # "rejected"
       THEN /\ sessions' = sessions \cup {reqSid[r]}
            /\ regEngine' = [regEngine EXCEPT ![r] =
                 [inst |-> restarts, id |-> engineId, key |-> hydrKey]]
            /\ status' = [status EXCEPT ![r] = 101]
            /\ UNCHANGED reason
       ELSE /\ status' = [status EXCEPT ![r] = 500]
            /\ reason' = [reason EXCEPT ![r] = "hydration failed"]
            /\ UNCHANGED <<sessions, regEngine>>
  /\ pc' = [pc EXCEPT ![r] = "done"]
  /\ UNCHANGED <<clientVars, storage, roomId, gate, reqVars, socket, servedId, hydrVars,
                 hydrBlob, hydrSrc, engine, engineId, engines, persistVars, clockVars,
                 lastSnap, restarts>>

\* Lines 85-88 once roomPromise has settled: register the socket and answer
\* 101, or the rejection reaches the router's catch.
ConnectResume(r) ==
  /\ pc[r] = "awaitRoom"
  /\ roomPromise \in {"resolved", "rejected"}
  /\ IF roomPromise = "resolved"
       THEN /\ sessions' = sessions \cup {reqSid[r]}
            /\ regEngine' = [regEngine EXCEPT ![r] =
                 [inst |-> restarts, id |-> engineId, key |-> hydrKey]]
            /\ status' = [status EXCEPT ![r] = 101]
            /\ UNCHANGED reason
       ELSE /\ status' = [status EXCEPT ![r] = 500]
            /\ reason' = [reason EXCEPT ![r] = "hydration failed"]
            /\ UNCHANGED <<sessions, regEngine>>
  /\ pc' = [pc EXCEPT ![r] = "done"]
  /\ UNCHANGED <<clientVars, storage, roomId, gate, reqVars, socket, servedId, hydrVars,
                 hydrBlob, hydrSrc, engine, engineId, engines, persistVars, clockVars,
                 lastSnap, restarts>>

\* Variant: the room is constructed without the initialSnapshot.
ConstructEmpty(snapshot) ==
  /\ engine' = EmptyRoom
  /\ engineId' = engineId + 1
  /\ engines' = engines + 1
  /\ roomPromise' = "resolved"
  /\ hydr' = "done"
  /\ lastSnap' = EmptyRoom

\* new TLSocketRoom({ schema, initialSnapshot, onDataChange }), lines 102-108.
Construct(snapshot) ==
  /\ engine' = snapshot
  /\ engineId' = engineId + 1
  /\ engines' = engines + 1
  /\ roomPromise' = "resolved"
  /\ hydr' = "done"
  /\ lastSnap' = snapshot

\* r2.get resolves, lines 97-100.  Without a stored object the room is
\* constructed in the same turn; otherwise the body is read first.
HydrateGetDone ==
  /\ hydr = "get" /\ GateOpen /\ ~MicrotaskPending
  /\ hydrBlob' = r2[hydrKey]
  /\ hydrSrc' = stored[hydrKey]
  /\ IF r2[hydrKey] = Absent
       THEN Construct(EmptyRoom)
       ELSE /\ hydr' = "json"
            /\ UNCHANGED <<engine, engineId, engines, roomPromise, lastSnap>>
  /\ UNCHANGED <<clientVars, storage, roomId, gate, hydrKey, gets, sessions, regEngine,
                 pc, reqVars, status, reason, socket, servedId, persistVars, clockVars,
                 restarts>>

\* Variant: a rejected r2.get clears the memo of getRoom.
HydrateGetFailClear ==
  /\ hydr = "get" /\ GateOpen /\ ~MicrotaskPending
  /\ roomPromise' = "null"
  /\ hydr' = "none"
  /\ UNCHANGED <<clientVars, storage, roomId, gate, hydrKey, gets, engineVars,
                 pc, reqVars, status, reason, socket, servedId, persistVars, clockVars,
                 lastSnap, restarts>>

\* r2.get rejects: the memoized promise is rejected.
HydrateGetFail ==
  /\ hydr = "get" /\ GateOpen /\ ~MicrotaskPending
  /\ roomPromise' = "rejected"
  /\ hydr' = "failed"
  /\ UNCHANGED <<clientVars, storage, roomId, gate, hydrKey, gets, engineVars,
                 pc, reqVars, status, reason, socket, servedId, persistVars, clockVars,
                 lastSnap, restarts>>

\* roomFromBucket.json() resolves, lines 99-108.
HydrateJsonDone ==
  /\ hydr = "json" /\ GateOpen /\ ~MicrotaskPending
  /\ Construct(ParseJson(hydrBlob))
  /\ UNCHANGED <<clientVars, storage, roomId, gate, hydrKey, hydrBlob, hydrSrc, gets, sessions,
                 regEngine, pc, reqVars, status, reason, socket, servedId, persistVars,
                 clockVars, restarts>>

\* roomFromBucket.json() rejects: the memoized promise is rejected.
HydrateJsonFail ==
  /\ hydr = "json" /\ GateOpen /\ ~MicrotaskPending
  /\ roomPromise' = "rejected"
  /\ hydr' = "failed"
  /\ UNCHANGED <<clientVars, storage, roomId, gate, hydrKey, gets, engineVars,
                 pc, reqVars, status, reason, socket, servedId, persistVars, clockVars,
                 lastSnap, restarts>>

\* Variant: the throttled function serializes and issues r2.put in the turn
\* of the call.
schedulePersistInline ==
  IF roomPromise = "null" \/ roomId = NoId
    THEN runs
    ELSE Append(runs, [stage |-> "put", inst |-> restarts, key |-> RoomKey(roomId),
                       snap |-> engine, blob |-> Stringify(engine),
                       retry |-> putFailed])

\* The throttled function, lines 116-117, up to `await this.getRoom()`:
\* the runs in flight after an invocation.  getRoom() finds the memo filled.
schedulePersistToR2 ==
  IF roomPromise = "null" \/ roomId = NoId
    THEN runs
    ELSE Append(runs, [stage |-> "room", inst |-> restarts, key |-> RoomKey(NoId),
                       snap |-> NoEngine, blob |-> Absent, retry |-> putFailed])

\* Bookkeeping of the start times of the runs.
RunStarted(invoke) ==
  IF invoke
    THEN /\ lastRunStart' = now
         /\ runGap' = IF lastRunStart = Undefined THEN Undefined
                      ELSE now - lastRunStart
    ELSE UNCHANGED <<lastRunStart, runGap>>

\* The timer of the throttle is due.
TimerDue == throttle.timerId /\ now >= throttle.timerDue

\* Variant: the room accepts no mutation while an r2.put is in flight.
MutationAfterPut ==
  /\ roomPromise = "resolved" /\ sessions # {}
  /\ GateOpen /\ ~MicrotaskPending /\ ~TimerDue
  /\ mutations < MaxMut
  /\ \A i \in 1..Len(runs) : runs[i].stage # "put"
  /\ mutations' = mutations + 1
  /\ engine' = [clock |-> engine.clock + 1,
                documents |-> Append(engine.documents, mutations + 1)]
  /\ LET call == debounced(throttle, now)
     IN  /\ throttle' = call.th
         /\ runs' = IF call.invoke THEN schedulePersistToR2 ELSE runs
         /\ RunStarted(call.invoke)
  /\ UNCHANGED <<clientVars, storage, roomId, gate, hydrVars, hydrBlob, hydrSrc, engineId,
                 engines, sessions, regEngine, pc, reqVars, status, reason, socket, servedId,
                 r2, stored, putFailed, now, lastSnap, restarts>>

\* The room accepts a mutation of a connected session and calls onDataChange,
\* lines 105-107, which calls the throttled schedulePersistToR2.  A timer
\* that is due has fired before the message of the session is handled.
Mutation ==
  /\ roomPromise = "resolved" /\ sessions # {}
  /\ GateOpen /\ ~MicrotaskPending /\ ~TimerDue
  /\ mutations < MaxMut
  /\ mutations' = mutations + 1
  /\ engine' = [clock |-> engine.clock + 1,
                documents |-> Append(engine.documents, mutations + 1)]
  /\ LET call == debounced(throttle, now)
     IN  /\ throttle' = call.th
         /\ runs' = IF call.invoke THEN schedulePersistToR2 ELSE runs
         /\ RunStarted(call.invoke)
  /\ UNCHANGED <<clientVars, storage, roomId, gate, hydrVars, hydrBlob, hydrSrc, engineId,
                 engines, sessions, regEngine, pc, reqVars, status, reason, socket, servedId,
                 r2, stored, putFailed, now, lastSnap, restarts>>

\* The timer of the throttle fires (timerExpired).
TimerFire ==
  /\ TimerDue
  /\ GateOpen /\ ~MicrotaskPending
  /\ LET expired == timerExpired(throttle, now)
     IN  /\ throttle' = expired.th
         /\ runs' = IF expired.invoke THEN schedulePersistToR2 ELSE runs
         /\ RunStarted(expired.invoke)
  /\ UNCHANGED <<clientVars, storage, roomId, gate, hydrVars, engineVars, pc, reqVars,
                 status, reason, socket, servedId, r2, stored, mutations, putFailed,
                 now, lastSnap, restarts>>

\* Variant: getRoom() of the run hydrates again instead of returning the memo.
PersistSnapshotRehydrate(i) ==
  /\ i \in 1..Len(runs) /\ runs[i].stage = "room"
  /\ roomPromise = "resolved"
  /\ runs' = [runs EXCEPT ![i] = [stage |-> "put", inst |-> restarts,
                                  key |-> RoomKey(roomId), snap |-> engine,
                                  blob |-> Stringify(engine),
                                  retry |-> runs[i].retry]]
  /\ lastSnap' = engine
  /\ getRoomNoMemo
  /\ UNCHANGED <<clientVars, storage, roomId, gate, engineVars, pc, reqVars,
                 status, reason, socket, servedId, throttle, r2, stored, mutations,
                 putFailed, clockVars, restarts>>

\* Variant: the run writes under the path roomId of the latest connected
\* session instead of this.roomId.
PersistSnapshotPathKey(i) ==
  /\ i \in 1..Len(runs) /\ runs[i].stage = "room"
  /\ roomPromise = "resolved" /\ sessions # {}
  /\ runs' = [runs EXCEPT ![i] = [stage |-> "put", inst |-> restarts,
                                  key |-> RoomKey(reqRoom[CHOOSE r \in Reqs :
                                    /\ reqSid[r] \in sessions
                                    /\ \A q \in Reqs : reqSid[q] \in sessions => q <= r]), snap |-> engine,
                                  blob |-> Stringify(engine),
                                  retry |-> runs[i].retry]]
  /\ lastSnap' = engine
  /\ UNCHANGED <<clientVars, storage, roomId, gate, hydrVars, engineVars, pc, reqVars,
                 status, reason, socket, servedId, throttle, r2, stored, mutations,
                 putFailed, clockVars, restarts>>

\* Lines 118-119 of run i, after `await this.getRoom()`: serialize the
\* current snapshot and issue r2.put.
PersistSnapshot(i) ==
  /\ i \in 1..Len(runs) /\ runs[i].stage = "room"
  /\ roomPromise = "resolved"
  /\ runs' = [runs EXCEPT ![i] = [stage |-> "put", inst |-> restarts,
                                  key |-> RoomKey(roomId), snap |-> engine,
                                  blob |-> Stringify(engine),
                                  retry |-> runs[i].retry]]
  /\ lastSnap' = engine
  /\ UNCHANGED <<clientVars, storage, roomId, gate, hydrVars, engineVars, pc, reqVars,
                 status, reason, socket, servedId, throttle, r2, stored, mutations,
                 putFailed, clockVars, restarts>>

\* The runs in flight without run i.
Without(i) == [j \in 1..(Len(runs) - 1) |-> IF j < i THEN runs[j] ELSE runs[j + 1]]

\* r2.put of run i completes: the object under the key is replaced.
PutDone(i) ==
  /\ i \in 1..Len(runs) /\ runs[i].stage = "put"
  /\ ~MicrotaskPending
  /\ r2' = [r2 EXCEPT ![runs[i].key] = runs[i].blob]
  /\ stored' = [stored EXCEPT ![runs[i].key] = runs[i].snap]
  /\ runs' = Without(i)
  /\ UNCHANGED <<clientVars, storage, roomId, gate, hydrVars, engineVars, pc, reqVars,
                 status, reason, socket, servedId, throttle, mutations, putFailed,
                 clockVars, lastSnap, restarts>>

\* Variant: the rejection of r2.put rejects the memoized roomPromise.
PutFailPoison(i) ==
  /\ i \in 1..Len(runs) /\ runs[i].stage = "put"
  /\ ~MicrotaskPending
  /\ runs' = Without(i)
  /\ putFailed' = (putFailed \/ runs[i].inst = restarts)
  /\ roomPromise' = "rejected"
  /\ UNCHANGED <<clientVars, storage, roomId, gate, hydr, hydrKey, gets, engineVars, pc, reqVars,
                 status, reason, socket, servedId, throttle, r2, stored, mutations,
                 clockVars, lastSnap, restarts>>

\* Variant: the rejection of r2.put cancels the throttle.
PutFailCancel(i) ==
  /\ i \in 1..Len(runs) /\ runs[i].stage = "put"
  /\ ~MicrotaskPending
  /\ runs' = Without(i)
  /\ putFailed' = (putFailed \/ runs[i].inst = restarts)
  /\ throttle' = [throttle EXCEPT !.timerId = FALSE, !.timerDue = 0, !.lastArgs = FALSE]
  /\ UNCHANGED <<clientVars, storage, roomId, gate, hydrVars, engineVars, pc, reqVars,
                 status, reason, socket, servedId, r2, stored, mutations,
                 clockVars, lastSnap, restarts>>

\* r2.put of run i rejects: the promise of the run is rejected, nobody awaits it.
PutFail(i) ==
  /\ i \in 1..Len(runs) /\ runs[i].stage = "put"
  /\ ~MicrotaskPending
  /\ runs' = Without(i)
  /\ putFailed' = (putFailed \/ runs[i].inst = restarts)
  /\ UNCHANGED <<clientVars, storage, roomId, gate, hydrVars, engineVars, pc, reqVars,
                 status, reason, socket, servedId, throttle, r2, stored, mutations,
                 clockVars, lastSnap, restarts>>

\* Variant: a closing channel makes the room drop every session.
SessionCloseAll(s) ==
  /\ s \in sessions
  /\ GateOpen /\ ~MicrotaskPending
  /\ sessions' = {}
  /\ UNCHANGED <<clientVars, storage, roomId, gate, hydrVars, hydrBlob, hydrSrc, engine,
                 engineId, engines, regEngine, pc, reqVars, status, reason, socket, servedId,
                 persistVars, clockVars, lastSnap, restarts>>

\* The channel of session s closes: the room drops the session.
SessionClose(s) ==
  /\ s \in sessions
  /\ GateOpen /\ ~MicrotaskPending
  /\ sessions' = sessions \ {s}
  /\ UNCHANGED <<clientVars, storage, roomId, gate, hydrVars, hydrBlob, hydrSrc, engine,
                 engineId, engines, regEngine, pc, reqVars, status, reason, socket, servedId,
                 persistVars, clockVars, lastSnap, restarts>>

\* Variant: the log-error route reads the body inside blockConcurrencyWhile.
LogStartBlocking(r, body) ==
  /\ NextReq(r) /\ GateOpen /\ ~MicrotaskPending
  /\ reqKind' = [reqKind EXCEPT ![r] = "log"]
  /\ reqBody' = [reqBody EXCEPT ![r] = body]
  /\ pc' = [pc EXCEPT ![r] = "logJson"]
  /\ gate' = r
  /\ UNCHANGED <<clientVars, storage, roomId, hydrVars, engineVars, reqRoom, reqSid, found,
                 status, reason, socket, servedId, persistVars, clockVars, lastSnap,
                 restarts>>

\* POST /api/log-error, lines 47-49, up to `await request.json()`.
LogStart(r, body) ==
  /\ NextReq(r) /\ GateOpen /\ ~MicrotaskPending
  /\ reqKind' = [reqKind EXCEPT ![r] = "log"]
  /\ reqBody' = [reqBody EXCEPT ![r] = body]
  /\ pc' = [pc EXCEPT ![r] = "logJson"]
  /\ UNCHANGED <<clientVars, storage, roomId, gate, hydrVars, engineVars, reqRoom, reqSid, found,
                 status, reason, socket, servedId, persistVars, clockVars, lastSnap,
                 restarts>>

\* Variant: the log-error route answers only on a bound object.
LogDoneNeedsRoom(r) ==
  /\ pc[r] = "logJson" /\ GateOpen /\ ~MicrotaskPending
  /\ status' = [status EXCEPT ![r] =
       IF reqBody[r] = "json" /\ roomId # NoId THEN 200 ELSE 500]
  /\ reason' = [reason EXCEPT ![r] =
       IF roomId = NoId THEN "Missing roomId"
       ELSE IF reqBody[r] = "json" THEN "" ELSE "Error"]
  /\ pc' = [pc EXCEPT ![r] = "done"]
  /\ UNCHANGED <<clientVars, storage, roomId, gate, hydrVars, engineVars, reqVars,
                 socket, servedId, persistVars, clockVars, lastSnap, restarts>>

\* Lines 57-71: the body was read; log and answer 200, or catch and answer 500.
LogDone(r) ==
  /\ pc[r] = "logJson" /\ GateOpen /\ ~MicrotaskPending
  /\ status' = [status EXCEPT ![r] = IF reqBody[r] = "json" THEN 200 ELSE 500]
  /\ reason' = [reason EXCEPT ![r] = IF reqBody[r] = "json" THEN "" ELSE "Error"]
  /\ pc' = [pc EXCEPT ![r] = "done"]
  /\ UNCHANGED <<clientVars, storage, roomId, gate, hydrVars, engineVars, reqVars,
                 socket, servedId, persistVars, clockVars, lastSnap, restarts>>

\* The throttle compares the clock with its time stamps: a timer is pending
\* or a time stamp is less than `wait` old.  Otherwise more time changes
\* nothing, and the clock of the model rests.
Timing ==
  \/ throttle.timerId
  \/ /\ throttle.lastCallTime # Undefined
     /\ \/ now - throttle.lastCallTime < wait
        \/ now - throttle.lastInvokeTime < wait

\* One tick passes.  A due timer fires before the next tick.
Tick ==
  /\ now < MaxTime
  /\ Timing
  /\ ~MicrotaskPending
  /\ ~TimerDue
  /\ now' = now + 1
  /\ UNCHANGED <<clientVars, storage, roomId, gate, hydrVars, engineVars, pc, reqVars,
                 status, reason, socket, servedId, persistVars, lastRunStart, runGap,
                 lastSnap, restarts>>

\* Variant: the constructor does not reload this.roomId from the durable key.
RestartNoReload ==
  /\ restarts < MaxRestart
  /\ ~MicrotaskPending
  /\ restarts' = restarts + 1
  /\ roomId' = NoId
  /\ gate' = 0
  /\ roomPromise' = "null"
  /\ hydr' = "none"
  /\ hydrKey' = RoomKey(NoId)
  /\ hydrBlob' = Absent
  /\ hydrSrc' = NoEngine
  /\ gets' = 0
  /\ engine' = NoEngine
  /\ engines' = 0
  /\ sessions' = {}
  /\ pc' = [r \in Reqs |-> IF pc[r] \in {"new", "done"} THEN pc[r] ELSE "aborted"]
  /\ throttle' = ThrottleInit
  /\ lastRunStart' = Undefined
  /\ runGap' = Undefined
  /\ lastSnap' = NoEngine
  /\ putFailed' = FALSE
  /\ UNCHANGED <<clientVars, storage, engineId, regEngine, reqVars, status, reason, socket,
                 servedId, runs, r2, stored, mutations, now>>

\* The host evicts the instance and constructs a new one, lines 16-30: the
\* fields are initialised, the constructor reloads this.roomId from the
\* durable key; requests, sessions, timers and suspended runs of the old
\* instance are gone.  A put already issued to the bucket stays in flight.
Restart ==
  /\ restarts < MaxRestart
  /\ ~MicrotaskPending
  /\ restarts' = restarts + 1
  /\ roomId' = storage
  /\ gate' = 0
  /\ roomPromise' = "null"
  /\ hydr' = "none"
  /\ hydrKey' = RoomKey(NoId)
  /\ hydrBlob' = Absent
  /\ hydrSrc' = NoEngine
  /\ gets' = 0
  /\ engine' = NoEngine
  /\ engines' = 0
  /\ sessions' = {}
  /\ pc' = [r \in Reqs |-> IF pc[r] \in {"new", "done"} THEN pc[r] ELSE "aborted"]
  /\ throttle' = ThrottleInit
  /\ lastRunStart' = Undefined
  /\ runGap' = Undefined
  /\ lastSnap' = NoEngine
  /\ putFailed' = FALSE
  /\ UNCHANGED <<clientVars, storage, engineId, regEngine, reqVars, status, reason, socket,
                 servedId, runs, r2, stored, mutations, now>>

Next ==
  \/ \E r \in Reqs, rid \in RoomIds :
       \E sid \in {SessionId(r), NoSession} : ConnectStart(r, rid, sid)
  \/ \E r \in Reqs : BindDone(r)
  \/ \E r \in Reqs : BindFail(r)
  \/ \E r \in Reqs : ConnectAfterBind(r)
  \/ \E r \in Reqs : ConnectResume(r)
  \/ HydrateGetDone
  \/ HydrateGetFail
  \/ HydrateJsonDone
  \/ HydrateJsonFail
  \/ Mutation
  \/ TimerFire
  \/ \E i \in 1..MaxMut : PersistSnapshot(i)
  \/ \E i \in 1..MaxMut : PutDone(i)
  \/ \E i \in 1..MaxMut : PutFail(i)
  \/ \E s \in SessionIds : SessionClose(s)
  \/ \E r \in Reqs, body \in {"json", "malformed"} : LogStart(r, body)
  \/ \E r \in Reqs : LogDone(r)
  \/ Tick
  \/ Restart

Spec == Init /\ [][Next]_vars

\* handleConnect(request), lines 78-89, called on an unbound object without the
\* route of lines 38-46 before it: the method is public, and no candidate
\* identity reaches the object.
DirectConnect(r) ==
  /\ NextReq(r) /\ GateOpen /\ ~MicrotaskPending
  /\ Unbound
  /\ reqKind' = [reqKind EXCEPT ![r] = "direct"]
  /\ reqSid' = [reqSid EXCEPT ![r] = SessionId(r)]
  /\ UNCHANGED <<reqRoom, reqBody>>
  /\ Found(r)
  /\ handleConnect(r, SessionId(r))
  /\ UNCHANGED <<clientVars, storage, roomId, gate, engineVars, persistVars, clockVars,
                 lastSnap, restarts>>

NextDirect == Next \/ \E r \in Reqs : DirectConnect(r)

\* The object with callers that reach handleConnect past the route.
SpecDirect == Init /\ [][NextDirect]_vars


\* ---------------------------------------------------------- client: drag
\* Every variable of the coordinator.
serverVars == <<storage, roomId, gate, pc, reqVars, status, reason, socket, servedId,
                hydrVars, engineVars, persistVars, clockVars, lastSnap, restarts>>

\* Toolbar removeEventListeners, part_001 lines 219-228.
ToolbarRemoveEventListeners(t) ==
  [t EXCEPT !.move = IF t.target THEN FALSE ELSE @,
            !.key = IF t.target THEN FALSE ELSE @,
            !.dragState = DragIdle]

\* Toolbar handlePointerDown, part_001 lines 167-210, on an item of the given
\* data-item_type; item is the table entry its index selects.  One pointing
\* device: a pointer goes down only while it is up.
ToolbarPointerDown(itemType, item, p) ==
  /\ pointer.down = "none"
  /\ pointer' = [down |-> "toolbar", created |-> <<>>, cancelled |-> "none",
                 event |-> Ev("down", IF itemType = "component" THEN item ELSE NoItem, p)]
  /\ toolbar' =
       LET t == [toolbar EXCEPT !.target = TRUE] IN
       CASE itemType = "tool" /\ item # NoItem -> [t EXCEPT !.tool = item]
         [] itemType = "component" /\ item # NoItem ->
              [t EXCEPT !.tool = "select", !.dragState = Pointing(item, p),
                        !.move = TRUE, !.key = TRUE]
         [] OTHER -> t
  /\ UNCHANGED <<sidebar, poll, checklist, serverVars>>

\* handlePointerMove with the threshold test left out.
ToolbarPointerMoveNoThreshold(p) ==
  /\ toolbar.move
  /\ pointer' = [pointer EXCEPT !.event = Ev("move", "", p)]
  /\ toolbar' =
       LET current == toolbar.dragState IN
       IF current.name = "idle" THEN toolbar
       ELSE [toolbar EXCEPT !.dragState = Dragging(current.item, p)]
  /\ UNCHANGED <<sidebar, poll, checklist, serverVars>>

\* Toolbar handlePointerMove, part_001 lines 94-121: the listener is attached
\* to the target.
ToolbarPointerMove(p) ==
  /\ toolbar.move
  /\ pointer' = [pointer EXCEPT !.event = Ev("move", "", p)]
  /\ toolbar' =
       LET current == toolbar.dragState IN
       CASE current.name = "idle" -> toolbar
         [] current.name = "pointing_item" ->
              IF DistOver(p, current.startPosition, DRAG_DIST)
              THEN [toolbar EXCEPT !.dragState = Dragging(current.item, p)]
              ELSE toolbar
         [] current.name = "dragging" ->
              [toolbar EXCEPT !.dragState = Dragging(current.item, p)]
  /\ UNCHANGED <<sidebar, poll, checklist, serverVars>>

\* Toolbar handlePointerUp, part_001 lines 123-165.
ToolbarPointerUp(p) ==
  /\ pointer.down = "toolbar"
  /\ LET current == toolbar.dragState
         shapes == IF current.name = "dragging" /\ current.item \in {"note", "checklist"}
                   THEN <<current.item>> ELSE <<>>
         t == [toolbar EXCEPT !.target = TRUE,
                              !.dragState = IF current.name = "idle" THEN @ ELSE DragIdle]
     IN /\ pointer' = [pointer EXCEPT !.down = "none", !.event = Ev("up", "", p),
                                      !.created = @ \o shapes]
        /\ toolbar' = ToolbarRemoveEventListeners(t)
  /\ UNCHANGED <<sidebar, poll, checklist, serverVars>>

\* handleKeyDown that hears Escape and leaves the drag as it is.
ToolbarHandleKeyDownDeaf(t, key) == t

\* Toolbar handleKeyDown, part_001 lines 212-217.
ToolbarHandleKeyDown(t, key) ==
  IF key = "Escape" /\ t.dragState.name = "dragging"
  THEN ToolbarRemoveEventListeners(t)
  ELSE t

\* The render a setDragState leads to, and the effect of lines 201-203 that
\* copies the rendered state to dragStateRef.
Commit(s) ==
  IF s.queued = NoUpdate THEN s
  ELSE [s EXCEPT !.dragState = s.queued, !.queued = NoUpdate]

\* A setDragState inside a discrete event (pointerdown, pointerup, keydown) is
\* rendered before the next event is delivered; a handler that set nothing
\* renders nothing.
SyncRender(old, new) == IF new.queued = old.queued THEN new ELSE Commit(new)

\* useDragAndDrop removeEventListeners, LeftSidebar.tsx lines 241-248.
SidebarRemoveEventListeners(s) ==
  [s EXCEPT !.move = IF s.targetRef THEN FALSE ELSE @,
            !.key = IF s.targetRef THEN FALSE ELSE @,
            !.targetRef = FALSE,
            !.queued = DragIdle]

\* useDragAndDrop handlePointerDown, lines 296-325, behind safeHandlePointerDown,
\* lines 378-383; result is the entry of searchResults the index selects.
SidebarPointerDown(result, p) ==
  /\ pointer.down = "none"
  /\ pointer' = [down |-> "sidebar", created |-> <<>>, cancelled |-> "none",
                 event |-> Ev("down", result, p)]
  /\ sidebar' =
       IF ~sidebar.editor THEN sidebar
       ELSE LET s == [sidebar EXCEPT !.targetRef = TRUE] IN
            IF result = NoItem THEN s
            ELSE SyncRender(sidebar, [s EXCEPT !.queued = Pointing(result, p),
                                               !.move = TRUE, !.key = TRUE])
  /\ UNCHANGED <<toolbar, poll, checklist, serverVars>>

\* useDragAndDrop handlePointerMove, lines 205-232: it reads dragStateRef and
\* its setDragState is rendered later.
SidebarPointerMove(p) ==
  /\ sidebar.move
  /\ pointer' = [pointer EXCEPT !.event = Ev("move", "", p)]
  /\ sidebar' =
       LET current == sidebar.dragState IN
       CASE current.name = "idle" -> sidebar
         [] current.name = "pointing_item" ->
              IF DistOver(p, current.startPosition, DRAG_DIST)
              THEN [sidebar EXCEPT !.queued = Dragging(current.item, p)]
              ELSE sidebar
         [] current.name = "dragging" ->
              [sidebar EXCEPT !.queued = Dragging(current.item, p)]
  /\ UNCHANGED <<toolbar, poll, checklist, serverVars>>

\* The render of a state set by handlePointerMove.
SidebarRender ==
  /\ sidebar.queued # NoUpdate
  /\ sidebar' = Commit(sidebar)
  /\ pointer' = [pointer EXCEPT !.event = Ev("render", "", <<0, 0>>)]
  /\ UNCHANGED <<toolbar, poll, checklist, serverVars>>

\* useDragAndDrop handlePointerUp, lines 250-294, behind safeHandlePointerUp,
\* lines 385-390; ok: createYrkesbarometerShape and createShapes did not throw.
SidebarPointerUp(p, ok) ==
  /\ pointer.down = "sidebar"
  /\ LET current == sidebar.dragState
         shapes == IF sidebar.editor /\ current.name = "dragging" /\ ok
                   THEN <<current.item>> ELSE <<>>
         s == [sidebar EXCEPT !.queued = IF current.name = "idle" THEN @ ELSE DragIdle]
     IN /\ pointer' = [pointer EXCEPT !.down = "none", !.event = Ev("up", "", p),
                                      !.created = @ \o shapes]
        /\ sidebar' = IF ~sidebar.editor THEN sidebar
                      ELSE SyncRender(sidebar, SidebarRemoveEventListeners(s))
  /\ UNCHANGED <<toolbar, poll, checklist, serverVars>>

\* useDragAndDrop handleKeyDown, lines 234-239.
SidebarHandleKeyDown(s, key) ==
  IF key = "Escape" /\ s.dragState.name = "dragging"
  THEN SyncRender(s, SidebarRemoveEventListeners(s))
  ELSE s

\* A key goes down: the document hands the event to the keydown listeners
\* that are attached.
KeyDown(key) ==
  /\ toolbar' = IF toolbar.key THEN ToolbarHandleKeyDown(toolbar, key) ELSE toolbar
  /\ sidebar' = IF sidebar.key THEN SidebarHandleKeyDown(sidebar, key) ELSE sidebar
  /\ pointer' = [pointer EXCEPT
       !.event = Ev("key", key, <<0, 0>>),
       !.cancelled = CASE key = "Escape" /\ toolbar.dragState.name = "dragging" -> "toolbar"
                       [] key = "Escape" /\ sidebar.dragState.name = "dragging" -> "sidebar"
                       [] OTHER -> @]
  /\ UNCHANGED <<poll, checklist, serverVars>>

\* useGlobalEditor hands the editor to useDragAndDrop, line 189.
SidebarSetEditor ==
  /\ ~sidebar.editor
  /\ sidebar' = [sidebar EXCEPT !.editor = TRUE]
  /\ pointer' = [pointer EXCEPT !.event = Ev("editor", "", <<0, 0>>)]
  /\ UNCHANGED <<toolbar, poll, checklist, serverVars>>

NextDrag ==
  \/ \E p \in Points :
       \/ \E item \in TOOLS \cup {NoItem} : ToolbarPointerDown("tool", item, p)
       \/ \E item \in DRAGGABLE_COMPONENTS \cup {NoItem} :
            ToolbarPointerDown("component", item, p)
  \/ \E p \in Points : ToolbarPointerMove(p)
  \/ \E p \in Points : ToolbarPointerUp(p)
  \/ \E p \in Points, result \in SearchResults \cup {NoItem} : SidebarPointerDown(result, p)
  \/ \E p \in Points : SidebarPointerMove(p)
  \/ SidebarRender
  \/ \E p \in Points, ok \in BOOLEAN : SidebarPointerUp(p, ok)
  \/ \E key \in {"Escape", "a"} : KeyDown(key)
  \/ SidebarSetEditor

\* The drag-to-create handlers of the page under the events of one pointing
\* device and the keyboard.
SpecDrag == Init /\ [][NextDrag]_vars

\* ---------------------------------------------------------- client: poll
\* pollForEditor, LeftSidebar.tsx lines 32-43, with checkEditor, lines 18-24.
pollForEditor(q) ==
  LET c == [q EXCEPT !.pollCount = @ + 1] IN
  IF c.pollCount > maxPolls THEN [c EXCEPT !.errors = @ + 1]
  ELSE IF c.tldrawEditor THEN [c EXCEPT !.editor = TRUE]
  ELSE [c EXCEPT !.timer = TRUE, !.timeoutId = TRUE]

\* The effect of useGlobalEditor, lines 17-53, at mount.
PollMount ==
  /\ poll.mounted = "no"
  /\ poll' = LET m == [poll EXCEPT !.mounted = "yes"] IN
             IF m.tldrawEditor THEN [m EXCEPT !.editor = TRUE]
             ELSE pollForEditor([m EXCEPT !.cleanup = TRUE])
  /\ UNCHANGED <<pointer, toolbar, sidebar, checklist, serverVars>>

\* The pending timer fires and runs pollForEditor.
PollTimeout ==
  /\ poll.timer
  /\ poll' = pollForEditor([poll EXCEPT !.timer = FALSE])
  /\ UNCHANGED <<pointer, toolbar, sidebar, checklist, serverVars>>

\* Tldraw's onMount publishes the editor, Room.tsx lines 68-72.
RoomOnMount ==
  /\ ~poll.tldrawEditor
  /\ poll' = [poll EXCEPT !.tldrawEditor = TRUE]
  /\ UNCHANGED <<pointer, toolbar, sidebar, checklist, serverVars>>

\* An unmount whose cleanup leaves the timer pending.
PollUnmountNoClear ==
  /\ poll.mounted = "yes"
  /\ poll' = [poll EXCEPT !.mounted = "gone"]
  /\ UNCHANGED <<pointer, toolbar, sidebar, checklist, serverVars>>

\* The component unmounts: the cleanup of lines 47-51 runs if the effect
\* returned it.
PollUnmount ==
  /\ poll.mounted = "yes"
  /\ poll' = [poll EXCEPT !.mounted = "gone",
                          !.timer = IF poll.cleanup /\ poll.timeoutId THEN FALSE ELSE @]
  /\ UNCHANGED <<pointer, toolbar, sidebar, checklist, serverVars>>

NextPoll == PollMount \/ PollTimeout \/ RoomOnMount \/ PollUnmount

SpecPoll == Init /\ [][NextPoll]_vars

\* A pending timer fires unless it is cleared.
SpecPollFair == SpecPoll /\ WF_vars(PollTimeout)

\* ----------------------------------------------------- client: checklist
\* An optional argument: <<>> when it is left out, <<v>> when it is v.
Given(arg, default) == IF arg = <<>> THEN default ELSE arg[1]

\* The truth value of !x for an entry of checkedItems ("empty": no entry).
Not(x) == IF x = "true" THEN "false" ELSE "true"

\* list[index] = value on a copy, JavaScript's way: an index past the end
\* lengthens the list and leaves the entries between empty.
SetAt(list, index, value) ==
  [j \in 1..(IF index > Len(list) THEN index ELSE Len(list)) |->
     IF j = index THEN value ELSE IF j <= Len(list) THEN list[j] ELSE "empty"]

\* list.splice(index, 1) on a copy.
Splice(list, index) ==
  IF index > Len(list) THEN list
  ELSE [j \in 1..(Len(list) - 1) |-> IF j < index THEN list[j] ELSE list[j + 1]]

\* createChecklistShape, LeftSidebar.tsx lines 752-772.
createChecklistShape(items, checkedItems) ==
  [type |-> "checklist",
   items |-> Given(items, <<"Uppgift 1", "Uppgift 2">>),
   checkedItems |-> Given(checkedItems, <<"false", "false", "false">>)]

\* A shape is created and put on the canvas.
ChecklistCreate(items, checkedItems) ==
  /\ checklist = NoShape
  /\ checklist' = createChecklistShape(items, checkedItems)
  /\ UNCHANGED <<pointer, toolbar, sidebar, poll, serverVars>>

\* toggleItem, part_003 lines 497-506; the component offers the indexes of items.
toggleItem(index) ==
  /\ checklist # NoShape /\ index \in 1..Len(checklist.items)
  /\ checklist' = [checklist EXCEPT
       !.checkedItems = SetAt(@, index, Not(IF index <= Len(@) THEN @[index] ELSE "empty"))]
  /\ UNCHANGED <<pointer, toolbar, sidebar, poll, serverVars>>

\* updateItem, part_003 lines 508-517.
updateItem(index, newValue) ==
  /\ checklist # NoShape /\ index \in 1..Len(checklist.items)
  /\ checklist' = [checklist EXCEPT !.items = SetAt(@, index, newValue)]
  /\ UNCHANGED <<pointer, toolbar, sidebar, poll, serverVars>>

\* deleteItem, part_003 lines 519-533.
deleteItem(index) ==
  /\ checklist # NoShape /\ index \in 1..Len(checklist.items)
  /\ checklist' = [checklist EXCEPT !.items = Splice(@, index),
                                    !.checkedItems = Splice(@, index)]
  /\ UNCHANGED <<pointer, toolbar, sidebar, poll, serverVars>>

\* addItem, part_003 lines 535-547.
addItem ==
  /\ checklist # NoShape /\ Len(checklist.items) < MaxItems
  /\ checklist' = [checklist EXCEPT !.items = Append(@, "New Task"),
                                    !.checkedItems = Append(@, "false")]
  /\ UNCHANGED <<pointer, toolbar, sidebar, poll, serverVars>>

NextChecklist ==
  \/ \E items \in {<<>>, <<<<"a">>>>}, checkedItems \in {<<>>, <<<<"false">>>>} :
       ChecklistCreate(items, checkedItems)
  \/ \E index \in 1..MaxItems : toggleItem(index)
  \/ \E index \in 1..MaxItems : updateItem(index, "x")
  \/ \E index \in 1..MaxItems : deleteItem(index)
  \/ addItem

\* A checklist shape under the operations its component offers.
SpecChecklist == Init /\ [][NextChecklist]_vars


\* ------------------------------------------------------------- properties
Connect(r) == reqKind[r] = "connect" /\ pc[r] # "new"
Served(r) == servedId[r] # NoId
Registered(r) == regEngine[r] # NoReg
InFlight == {i \in 1..Len(runs) : runs[i].inst = restarts}
PutsInFlight == {i \in InFlight : runs[i].stage = "put"}
Warm == roomPromise = "resolved"

\* C1: whatever candidates the connect requests carry, one of them is bound,
\* in this.roomId and under the durable key alike, and every request that
\* reached getRoom was served the room of that one identity.
C1_SingleBinding ==
  /\ roomId # NoId => roomId = storage
  /\ storage # NoId => \E r \in Reqs : Connect(r) /\ reqRoom[r] = storage
  /\ \A r \in Reqs : Served(r) => servedId[r] = storage /\ roomId = storage

C1_Witness ==
  \E r, q \in Reqs :
    /\ reqRoom[r] # reqRoom[q]
    /\ Served(r) /\ Served(q)
    /\ restarts = 0

\* C2: an instance calls r2.get at most once and constructs at most one room,
\* and the sessions it admits are all registered with that one room.
C2_SingleHydration ==
  /\ gets <= 1
  /\ engines <= 1
  /\ \A r, q \in Reqs :
       Registered(r) /\ Registered(q) /\ regEngine[r].inst = regEngine[q].inst
         => regEngine[r].id = regEngine[q].id

C2_Witness ==
  \E r, q \in Reqs :
    /\ r # q
    /\ Registered(r) /\ Registered(q)
    /\ regEngine[r].inst = regEngine[q].inst
    /\ gets = 1

\* C3: at most one r2.put of the instance is in flight at any moment.
C3_OnePutInFlight == Cardinality(PutsInFlight) <= 1

\* C4: two consecutive starts of a persistence run of an instance are at
\* least the throttle interval apart.
C4_RunStartsApart == runGap = Undefined \/ runGap >= wait

\* C5: trailing edge.  While the room holds mutations that no run has
\* serialized, a trailing call is pending on a timer due within the interval
\* of the last dirty signal; otherwise the latest run serialized the room as
\* it is now.  The put of a run stores exactly the snapshot it serialized.
C5_Covered ==
  Warm /\ ~MicrotaskPending =>
    \/ lastSnap = engine
    \/ /\ throttle.timerId /\ throttle.lastArgs
       /\ throttle.timerDue <= throttle.lastCallTime + wait

C5_PutStores ==
  \A i \in 1..MaxMut :
    (i \in InFlight /\ PutDone(i) /\ runs[i].snap = engine)
      => stored'[RoomKey(roomId)] = engine'

C5_TrailingEdge == []C5_Covered /\ [][C5_PutStores]_vars

C5_Witness ==
  /\ Warm /\ restarts = 0
  /\ engine.clock >= 2
  /\ lastRunStart = wait /\ runGap = wait
  /\ stored[RoomKey(roomId)] = engine

\* C6: once the identity is bound, no step changes this.roomId or the
\* durable key, and a durable key once written is never rewritten.
C6_Step ==
  /\ roomId # NoId => roomId' = roomId /\ storage' = storage
  /\ storage # NoId => storage' = storage

C6_IdentityImmutable == [][C6_Step]_vars

C6_Witness ==
  \E r \in Reqs :
    /\ Connect(r) /\ pc[r] = "done" /\ status[r] = 101
    /\ roomId # NoId /\ reqRoom[r] # roomId
    /\ restarts = 1

\* C7: a connect request with a sessionId whose path roomId is not the bound
\* identity is not answered with an error for it, writes nothing durable,
\* and is registered with the room that is hydrated from and persisted to
\* rooms/{bound id}.
Mismatch(r) ==
  /\ Connect(r) /\ reqSid[r] # NoSession /\ pc[r] # "aborted"
  /\ storage # NoId /\ reqRoom[r] # storage

C7_State ==
  \A r \in Reqs : Mismatch(r) =>
    /\ status[r] \in {0, 101} \/ reason[r] = "hydration failed"
    /\ servedId[r] = storage
    /\ Registered(r) => regEngine[r].key = RoomKey(storage)
    /\ hydr # "none" => hydrKey = RoomKey(storage)
    /\ \A i \in 1..Len(runs) : runs[i].stage = "put" => runs[i].key = RoomKey(storage)
    /\ r2[RoomKey(reqRoom[r])] = Absent

C7_Step ==
  \A r \in Reqs :
    ( /\ pc[r] = "new" /\ pc'[r] # "new"
      /\ reqKind'[r] = "connect" /\ reqSid'[r] # NoSession
      /\ roomId # NoId /\ reqRoom'[r] # roomId )
    => storage' = storage /\ roomId' = roomId /\ pc'[r] = "awaitRoom"

C7_MismatchIgnored == []C7_State /\ [][C7_Step]_vars

C7_Witness ==
  \E r \in Reqs :
    /\ Mismatch(r) /\ Registered(r) /\ status[r] = 101
    /\ r2[RoomKey(storage)] # Absent

\* C8: a connect request without sessionId is answered 400 'Missing
\* sessionId'; it creates no socket pair, registers no session and its
\* handling starts no hydration.
NoSid(r) == Connect(r) /\ reqSid[r] = NoSession

C8_State ==
  \A r \in Reqs : NoSid(r) =>
    /\ ~socket[r] /\ ~Registered(r) /\ ~Served(r)
    /\ pc[r] # "awaitRoom"
    /\ status[r] \in {0, 400}
    /\ pc[r] = "done" => status[r] = 400 /\ reason[r] = "Missing sessionId"

C8_Step ==
  \A r \in Reqs :
    ( /\ reqKind'[r] = "connect" /\ reqSid'[r] = NoSession
      /\ pc'[r] # pc[r] /\ pc'[r] # "aborted" )
    => UNCHANGED <<gets, roomPromise, hydr, sessions>>

C8_MissingSessionId == []C8_State /\ [][C8_Step]_vars

C8_Witness ==
  \E r \in Reqs :
    /\ NoSid(r) /\ status[r] = 400
    /\ roomId # NoId /\ roomPromise = "null"

\* C9: no step of a connect request without sessionId changes the bound
\* identity, the durable key, the memoized room, the persistence schedule or
\* the bucket, in whatever state the request finds the coordinator.
C9_Step ==
  \A r \in Reqs :
    ( /\ reqKind'[r] = "connect" /\ reqSid'[r] = NoSession
      /\ pc'[r] # pc[r] /\ pc'[r] # "aborted" )
    => UNCHANGED <<roomId, storage, roomPromise, hydr, engine, throttle, runs, r2>>

C9_RejectedNoStateChange == [][C9_Step]_vars

\* C10: round trip.  A hydration that finds an object constructs the room
\* with exactly the snapshot a persistence run serialized into that object;
\* the object under a key is always the whole text of one snapshot, the one
\* written by the put that completed last.
C10_Hydrated == (hydr = "json" /\ hydr' = "done") => engine' = hydrSrc

C10_Replaced ==
  \A k \in Keys : r2'[k] # r2[k] =>
    \E i \in 1..Len(runs) :
      /\ runs[i].stage = "put" /\ runs[i].key = k
      /\ r2'[k] = Stringify(runs[i].snap)

C10_Stored == \A k \in Keys : stored[k] # NoEngine => r2[k] = Stringify(stored[k])

C10_RoundTrip == []C10_Stored /\ [][C10_Hydrated /\ C10_Replaced]_vars

C10_Witness ==
  /\ restarts = 1
  /\ hydr = "done" /\ hydrBlob # Absent
  /\ engine = hydrSrc /\ Len(engine.documents) >= 2

\* C11: a rejected r2.put changes neither the bound identity, the durable
\* key, the room, its sessions nor any request; and every answer given by an
\* instance one of whose puts was rejected is the answer of the request's own
\* handling: a connect request with a sessionId is registered and answered 101.
C11_Step ==
  \A i \in 1..MaxMut : PutFail(i) =>
    UNCHANGED <<roomId, storage, gate, roomPromise, hydr, engine, engineId,
                sessions, regEngine, pc, status, reason, socket>>

C11_Answers ==
  \A r \in Reqs : (putFailed /\ status'[r] # status[r]) =>
    \/ /\ reqKind[r] = "connect" /\ reqSid[r] # NoSession
       /\ status'[r] = 101 /\ reqSid[r] \in sessions'
    \/ reqKind[r] = "connect" /\ reqSid'[r] = NoSession /\ status'[r] = 400
    \/ reqKind[r] = "log" /\ reqBody[r] = "json" /\ status'[r] = 200
    \/ reqKind[r] = "log" /\ reqBody[r] = "malformed" /\ status'[r] = 500

C11_PutFailureContained == [][C11_Step /\ C11_Answers]_vars

C11_Witness ==
  \E r \in Reqs :
    /\ found[r].putFailed /\ putFailed
    /\ Registered(r) /\ status[r] = 101
    /\ roomId # NoId /\ engine # NoEngine

\* C12: a rejected r2.put leaves the throttle as it was.  In an instance one
\* of whose puts was rejected, a mutation starts a persistence run at once or
\* leaves the call recorded and the timer pending, due at most `wait` later;
\* the timer that fires with a call recorded starts a run; and a run that
\* was started finds the room resolved, so it goes on to r2.put.
C12_Step ==
  /\ \A i \in 1..MaxMut : PutFail(i) => throttle' = throttle
  /\ (putFailed /\ mutations' # mutations) =>
       \/ /\ Len(runs') = Len(runs) + 1
          /\ runs'[Len(runs')].stage = "room" /\ runs'[Len(runs')].retry
       \/ /\ throttle'.timerId /\ throttle'.lastArgs
          /\ throttle'.timerDue <= now + wait
  /\ (putFailed /\ TimerFire /\ throttle.lastArgs) =>
       /\ Len(runs') = Len(runs) + 1
       /\ runs'[Len(runs')].stage = "room" /\ runs'[Len(runs')].retry

C12_State ==
  \A i \in InFlight : runs[i].stage = "room" => roomPromise = "resolved"

C12_SchedulerSurvives == []C12_State /\ [][C12_Step]_vars

C12_Witness ==
  /\ putFailed
  /\ \E i \in PutsInFlight : runs[i].retry /\ runs[i].snap = engine

\* Nothing is pending in the instance: no timer, no run, no continuation.
Quiescent == ~throttle.timerId /\ runs = <<>> /\ ~MicrotaskPending

\* C13: once nothing is pending any more in an instance one of whose puts
\* was rejected, the object stored under the key is the room's state.
C13_NotLeftStale ==
  (Warm /\ putFailed /\ Quiescent) => stored[RoomKey(roomId)] = engine

\* C14: once roomPromise is rejected it stays rejected for the instance: no
\* further r2.get is issued, no room is constructed, and every connect
\* request with a sessionId that completes, whether it was waiting or came
\* later, is answered 500 and registered nowhere.
C14_State ==
  roomPromise = "rejected" =>
    /\ gets = 1 /\ engines = 0 /\ engine = NoEngine
    /\ \A r \in Reqs : Registered(r) => regEngine[r].inst < restarts

C14_Step ==
  (roomPromise = "rejected" /\ restarts' = restarts) =>
    /\ roomPromise' = "rejected" /\ hydr' = hydr /\ gets' = gets
    /\ engines' = engines /\ engine' = engine /\ engineId' = engineId
    /\ \A r \in Reqs :
         (pc'[r] # pc[r] /\ reqKind'[r] = "connect" /\ reqSid'[r] # NoSession) =>
           \/ pc'[r] = "awaitRoom" /\ status'[r] = 0
           \/ /\ pc'[r] = "done" /\ status'[r] = 500
              /\ reason'[r] = "hydration failed" /\ regEngine'[r] = NoReg

C14_FailureSticky == []C14_State /\ [][C14_Step]_vars

C14_Witness ==
  \E r, q \in Reqs :
    /\ roomPromise = "rejected"
    /\ ~found[r].rejected /\ status[r] = 500 /\ reason[r] = "hydration failed"
    /\ found[q].rejected /\ status[q] = 500 /\ reason[q] = "hydration failed"

\* C15: in an instance none of whose puts was rejected, once mutations were
\* accepted and nothing is pending any more, the object stored under the key
\* is the room's state.
C15_Converged ==
  (restarts = 0 /\ Warm /\ ~putFailed /\ mutations > 0 /\ Quiescent)
    => stored[RoomKey(roomId)] = engine

\* C16: handleConnect on an unbound object fails with 'Missing roomId'; the
\* call leaves the object unbound, the durable key unwritten and the memo of
\* getRoom empty; a connect request that follows binds its roomId and is
\* registered and answered 101 once the room is hydrated.
Direct(r) == reqKind[r] = "direct" /\ pc[r] # "new"

C16_State ==
  \A r \in Reqs : Direct(r) =>
    /\ pc[r] = "done" /\ status[r] = 500 /\ reason[r] = "Missing roomId"
    /\ ~Served(r) /\ ~Registered(r)

C16_Step ==
  \A r \in Reqs :
    /\ (pc[r] = "new" /\ reqKind'[r] = "direct" /\ pc'[r] # "new") =>
         /\ roomId' = NoId /\ storage' = storage /\ gate' = gate
         /\ roomPromise' = "null" /\ hydr' = "none" /\ gets' = gets
         /\ engine' = engine /\ engines' = engines
    /\ ( /\ \E q \in Reqs : Direct(q)
         /\ reqKind'[r] = "connect" /\ reqSid'[r] # NoSession
         /\ pc'[r] # pc[r] /\ pc'[r] # "aborted" ) =>
         \/ pc'[r] = "binding" /\ roomId = NoId
         \/ pc'[r] = "bound" /\ roomId' = reqRoom[r] /\ storage' = reqRoom[r]
         \/ pc'[r] = "awaitRoom" /\ roomId # NoId
         \/ /\ pc'[r] = "done" /\ roomPromise = "resolved"
            /\ status'[r] = 101 /\ reqSid[r] \in sessions'
         \/ /\ pc'[r] = "done" /\ roomPromise = "rejected"
            /\ status'[r] = 500 /\ reason'[r] = "hydration failed"

C16_MissingRoomId == []C16_State /\ [][C16_Step]_vars

C16_Witness ==
  \E r, q \in Reqs :
    /\ r < q /\ restarts = 0
    /\ Direct(r) /\ status[r] = 500 /\ reason[r] = "Missing roomId"
    /\ Connect(q) /\ status[q] = 101 /\ Registered(q)
    /\ roomId = reqRoom[q] /\ storage = reqRoom[q]

C18_Step ==
  \A r \in Reqs :
    (reqKind'[r] = "log" /\ pc'[r] # pc[r] /\ pc'[r] # "aborted") =>
      /\ UNCHANGED <<roomId, storage, gate, roomPromise, hydr, hydrKey, gets,
                     engine, engineId, sessions, throttle, runs, r2>>
      /\ \A q \in Reqs \ {r} : pc'[q] = pc[q] /\ status'[q] = status[q]

C18_State == \A r \in Reqs : reqKind[r] = "log" => gate # r

C18_LogIsolated == []C18_State /\ [][C18_Step]_vars

C18_Witness ==
  \E r, q \in Reqs :
    /\ r < q
    /\ reqKind[r] = "log" /\ pc[r] = "logJson"
    /\ Connect(q) /\ status[q] = 101 /\ Registered(q)
    /\ restarts = 0

\* C19: a step in which the handling of request r throws (the durable put of
\* the bind, getRoom without identity, the rejected roomPromise) answers r
\* with 500 and changes the progress of no other request.
Throws(r) ==
  \/ BindFail(r)
  \/ DirectConnect(r)
  \/ ConnectResume(r) /\ roomPromise = "rejected"

C19_Step ==
  \A r \in Reqs : Throws(r) =>
    /\ pc'[r] = "done" /\ status'[r] = 500
    /\ \A q \in Reqs \ {r} : pc'[q] = pc[q]

C19_ExceptionsContained == [][C19_Step]_vars

\* C20: a connect request with a sessionId that has reached
\* `await this.getRoom()` while the hydration is in flight has its 101 answer.
C20_NoWaitForHydration ==
  \A r \in Reqs :
    (Connect(r) /\ pc[r] = "awaitRoom" /\ hydr \in {"get", "json"})
      => status[r] = 101

\* C21: while an r2.put of the instance is in flight the input gate is open,
\* the next connect request can be delivered, a request awaiting the room can
\* resume and is then registered and answered 101, and the room can accept a
\* mutation, which changes the room and calls the throttle.
C21_State ==
  PutsInFlight # {} =>
    /\ Warm /\ GateOpen
    /\ \A r \in Reqs : pc[r] = "awaitRoom" => ENABLED ConnectResume(r)
    /\ ~MicrotaskPending =>
         /\ \A r \in Reqs : NextReq(r) => ENABLED ConnectStart(r, roomId, SessionId(r))
         /\ (sessions # {} /\ mutations < MaxMut /\ ~TimerDue) => ENABLED Mutation

C21_Step ==
  PutsInFlight # {} =>
    /\ \A r \in Reqs : (pc[r] = "awaitRoom" /\ pc'[r] = "done") =>
         /\ status'[r] = 101 /\ reqSid[r] \in sessions'
         /\ regEngine'[r] = [inst |-> restarts, id |-> engineId, key |-> RoomKey(roomId)]
    /\ mutations' # mutations =>
         /\ engine'.clock = engine.clock + 1
         /\ throttle'.lastCallTime = now
         /\ throttle'.lastArgs \/ Len(runs') = Len(runs) + 1

C21_StalledPut == []C21_State /\ [][C21_Step]_vars

C21_Witness ==
  \E i \in PutsInFlight, r \in Reqs :
    /\ engine.clock > runs[i].snap.clock
    /\ Connect(r) /\ pc[r] = "awaitRoom" /\ socket[r]

\* C22: a step that drops a session from the room drops that one session
\* and changes neither this.roomId, the durable key, roomPromise and the
\* hydration, the room's state, the throttle, the runs, the bucket nor any
\* request.
C22_Step ==
  \A s \in SessionIds : SessionClose(s) =>
    /\ s \in sessions /\ sessions' = sessions \ {s}
    /\ UNCHANGED <<roomId, storage, gate, roomPromise, hydr, hydrKey, gets,
                   engine, engineId, engines, throttle, runs, r2, stored,
                   pc, status, regEngine>>

C22_CloseRemovesOne == [][C22_Step]_vars

C22_Witness ==
  \E r, q \in Reqs :
    /\ Registered(r) /\ regEngine[r].inst = restarts /\ reqSid[r] \notin sessions
    /\ Registered(q) /\ reqSid[q] \in sessions
    /\ PutsInFlight # {} /\ throttle.timerId /\ throttle.lastArgs
    /\ Warm /\ roomId # NoId

\* C23: the r2.get of the hydration reads the object then stored under
\* rooms/{this.roomId}, and the room the hydration constructs starts from
\* the snapshot that object holds, or empty when r2.get found no object;
\* what is written to the key after the read does not reach the room.
C23_Read ==
  (hydr = "get" /\ hydr' \in {"json", "done"}) =>
    /\ hydrBlob' = r2[RoomKey(roomId)]
    /\ roomId = storage /\ roomId # NoId

C23_Constructed ==
  engines' = engines + 1 =>
    /\ hydrBlob' = Absent => engine' = EmptyRoom
    /\ hydrBlob' # Absent =>
         /\ Stringify(engine') = hydrBlob'
         /\ engine' = hydrSrc'
    /\ roomPromise' = "resolved" /\ engines = 0

C23_HydrationResult == [][C23_Read /\ C23_Constructed]_vars

C23_Witness ==
  /\ restarts = 1 /\ Warm
  /\ hydrBlob # Absent /\ Stringify(engine) = hydrBlob
  /\ r2[RoomKey(roomId)] # hydrBlob

\* C24: a session is registered only with a constructed room, in the step
\* in which its request resumes from `await this.getRoom()`, and a request is
\* registered at most once; the step that resolves roomPromise leaves every
\* waiting request waiting, and a request that resumes on the resolved
\* promise is registered and answered 101.
C24_State ==
  /\ sessions # {} => Warm /\ engine # NoEngine
  /\ \A r \in Reqs :
       /\ (Registered(r) /\ regEngine[r].inst = restarts) => Warm /\ engines = 1
       /\ (Connect(r) /\ status[r] = 101) => Registered(r)
       /\ Registered(r) => status[r] = 101 /\ pc[r] = "done"

C24_Step ==
  \A r \in Reqs :
    /\ regEngine'[r] # regEngine[r] =>
         /\ regEngine[r] = NoReg /\ roomPromise = "resolved"
         /\ pc[r] = "awaitRoom" /\ pc'[r] = "done"
         /\ sessions' = sessions \cup {reqSid[r]}
    /\ (pc[r] = "awaitRoom" /\ roomPromise = "pending" /\ restarts' = restarts) =>
         pc'[r] = "awaitRoom" /\ status'[r] = 0
    /\ (pc[r] = "awaitRoom" /\ roomPromise = "resolved" /\ pc'[r] = "done") =>
         regEngine'[r] = [inst |-> restarts, id |-> engineId, key |-> hydrKey]
    /\ pc[r] = "done" => pc'[r] = "done" /\ regEngine'[r] = regEngine[r]

C24_RegisteredOnce == []C24_State /\ [][C24_Step]_vars

C24_Witness ==
  \E r, q \in Reqs :
    /\ r # q /\ Warm /\ engines = 1
    /\ pc[r] = "awaitRoom" /\ pc[q] = "awaitRoom"
    /\ ~Registered(r) /\ ~Registered(q)

\* C25: the step in which the room accepts a mutation and calls
\* onDataChange issues no r2.put and writes nothing to the bucket: the run it
\* starts is suspended at `await this.getRoom()` with nothing serialized, and
\* the puts in flight after the step are those in flight before it.
Puts(rs) == {i \in 1..Len(rs) : rs[i].stage = "put"}

C25_Step ==
  mutations' # mutations =>
    /\ r2' = r2 /\ stored' = stored /\ lastSnap' = lastSnap
    /\ Puts(runs') = Puts(runs)
    /\ \A i \in Puts(runs) : runs'[i] = runs[i]
    /\ Len(runs') > Len(runs) =>
         /\ runs'[Len(runs')].stage = "room"
         /\ runs'[Len(runs')].snap = NoEngine /\ runs'[Len(runs')].blob = Absent

C25_NoInlineWrite == [][C25_Step]_vars

C25_Witness ==
  /\ Len(runs) >= 2
  /\ runs[Len(runs)].stage = "room" /\ runs[1].stage = "put"
  /\ throttle.lastCallTime = now /\ lastRunStart = now
  /\ engine.clock > runs[1].snap.clock

\* No call of the throttle and no run for at least `wait`, or none ever.
Idle ==
  \/ throttle.lastCallTime = Undefined
  \/ /\ now - throttle.lastCallTime >= wait
     /\ lastRunStart = Undefined \/ now - lastRunStart >= wait

\* C26: a mutation accepted when the throttle has been idle starts a
\* persistence run in the same step, at the time of the mutation.
C26_Step ==
  (mutations' # mutations /\ Idle) =>
    /\ Len(runs') = Len(runs) + 1
    /\ runs'[Len(runs')].stage = "room" /\ runs'[Len(runs')].inst = restarts
    /\ lastRunStart' = now /\ now' = now
    /\ throttle'.lastInvokeTime = now /\ ~throttle'.lastArgs

C26_LeadingEdge == [][C26_Step]_vars

C26_Witness ==
  /\ restarts = 0 /\ runs # <<>>
  /\ runs[Len(runs)].stage = "room"
  /\ throttle.lastCallTime = now /\ lastRunStart = now
  /\ runGap # Undefined /\ runGap >= wait
  /\ engine.clock >= 2

\* The room holds a mutation that no run of the instance has serialized or
\* is about to serialize.
Uncovered ==
  /\ Warm /\ lastSnap # engine
  /\ \A i \in InFlight : runs[i].stage # "room"

\* C27: while the room holds a mutation that no run has serialized, the call
\* is recorded and the timer is pending, due at most `wait` after the start
\* of the last run and therefore at most `wait` after that mutation, and not
\* overdue; the timer that fires starts a run, and the run serializes the
\* room as it is then, every accepted mutation included.
C27_State ==
  Uncovered =>
    /\ throttle.timerId /\ throttle.lastArgs
    /\ throttle.timerDue <= throttle.lastInvokeTime + wait
    /\ now <= throttle.timerDue
    /\ lastRunStart # Undefined /\ throttle.lastInvokeTime = lastRunStart

C27_Step ==
  /\ (Uncovered /\ TimerFire) =>
       /\ now = throttle.timerDue
       /\ Len(runs') = Len(runs) + 1 /\ runs'[Len(runs')].stage = "room"
       /\ lastRunStart' = now
  /\ \A i \in 1..MaxMut : PersistSnapshot(i) =>
       /\ runs'[i].snap = engine /\ runs'[i].blob = Stringify(engine)
       /\ lastSnap' = engine

C27_StalenessBound == []C27_State /\ [][C27_Step]_vars

C27_Witness ==
  \E i \in PutsInFlight :
    /\ ~putFailed /\ restarts = 0
    /\ runs[i].snap = engine /\ engine.clock >= 2
    /\ lastRunStart > throttle.lastCallTime
    /\ lastRunStart <= throttle.lastCallTime + wait
    /\ lastRunStart < wait + wait

\* C28: the key of the r2.get of a hydration and the key of every r2.put
\* is rooms/{roomId} of the one bound identity; the run writes the key the
\* hydration of its instance read; and no object exists under any other key.
C28_State ==
  /\ hydr # "none" => roomId # NoId /\ hydrKey = RoomKey(roomId)
  /\ \A i \in 1..Len(runs) : runs[i].stage = "put" =>
       /\ runs[i].key = RoomKey(storage)
       /\ runs[i].inst = restarts => runs[i].key = hydrKey
  /\ \A k \in Keys : (r2[k] # Absent \/ stored[k] # NoEngine) => k = RoomKey(storage)

C28_Step ==
  /\ gets' = gets + 1 => hydrKey' = RoomKey(storage) /\ storage # NoId
  /\ \A k \in Keys : r2'[k] # r2[k] => k = RoomKey(storage) /\ storage' = storage

C28_KeyScoping == []C28_State /\ [][C28_Step]_vars

C28_Witness ==
  \E r \in Reqs, i \in PutsInFlight :
    /\ restarts = 1 /\ hydr = "done" /\ hydrBlob # Absent
    /\ runs[i].key = hydrKey /\ r2[hydrKey] # Absent
    /\ Registered(r) /\ regEngine[r].inst = 1 /\ reqRoom[r] # roomId
    /\ r2[RoomKey(reqRoom[r])] = Absent

\* Stage of the life of the instance: 0 unbound, 1 binding, 2 bound with no
\* roomPromise, 3 roomPromise pending, 4 roomPromise settled.
Phase ==
  IF roomId = NoId THEN (IF gate = 0 THEN 0 ELSE 1)
  ELSE IF roomPromise = "null" THEN 2
  ELSE IF roomPromise = "pending" THEN 3
  ELSE 4

\* The step replaces the instance: an eviction, or the reset after the
\* durable put of the bind was rejected.
NewInstance == restarts' # restarts \/ \E r \in Reqs : BindFail(r)

\* C29: within one instance the stage never decreases: this.roomId once set
\* keeps its value, roomPromise once assigned is never cleared, a settled
\* roomPromise keeps its outcome and its room; and roomPromise is assigned
\* and r2.get issued only with this.roomId set, never during the bind.
C29_State ==
  /\ roomPromise # "null" => roomId # NoId /\ roomId = storage
  /\ hydr # "none" <=> roomPromise # "null"
  /\ gate # 0 => roomId = NoId /\ roomPromise = "null"
  /\ engine # NoEngine <=> roomPromise = "resolved"

C29_Step ==
  /\ roomId # NoId => roomId' = roomId
  /\ ~NewInstance =>
       /\ Phase' >= Phase
       /\ roomPromise \in {"resolved", "rejected"} =>
            roomPromise' = roomPromise /\ engineId' = engineId
       /\ gets' >= gets /\ engines' >= engines

C29_Lifecycle == []C29_State /\ [][C29_Step]_vars

C29_Witness ==
  /\ restarts = 1 /\ Phase = 4 /\ Warm
  /\ gets = 1 /\ engines = 1 /\ hydrBlob # Absent
  /\ sessions # {} /\ mutations >= 2

\* C30: a run of the instance exists, and an r2.put of the instance is in
\* flight, only after the hydration has constructed the room; the steps that
\* start a run and the step in which the run serializes and issues r2.put
\* issue no r2.get and leave roomPromise as it is; and the throttled function
\* called with no roomPromise or no this.roomId starts no run.
C30_State ==
  /\ \A i \in InFlight : Warm /\ hydr = "done" /\ engines = 1 /\ gets = 1
  /\ \A k \in Keys : r2[k] # Absent => engineId >= 1
  /\ (roomPromise = "null" \/ roomId = NoId) => schedulePersistToR2 = runs

C30_Step ==
  (Len(runs') > Len(runs) \/ \E i \in 1..MaxMut : PersistSnapshot(i)) =>
    /\ UNCHANGED <<roomPromise, hydr, hydrKey, gets, engines, engineId>>
    /\ roomPromise = "resolved"

C30_NoPutBeforeHydration == []C30_State /\ [][C30_Step]_vars

C30_Witness ==
  \E i \in PutsInFlight :
    /\ runs[i].retry /\ restarts = 0
    /\ gets = 1 /\ engines = 1 /\ hydrBlob = Absent
    /\ r2[runs[i].key] = Absent

\* The first connect request the object ever receives: it finds the object
\* unbound.
FirstConnect(r) ==
  /\ Connect(r)
  /\ \A q \in Reqs : q < r => reqKind[q] # "connect"

\* C31 as stated: the connect request that finds the object unbound is
\* rejected, it is never registered nor answered 101.
C31_Rejected ==
  \A r \in Reqs : (FirstConnect(r) /\ pc[r] = "done") =>
    status[r] # 101 /\ ~Registered(r)

\* C31 amended: while this.roomId is not set no socket is created, no
\* session registered, no 101 answered and no hydration started; a connect
\* request that finds the object unbound is not answered but enters the bind
\* and closes the input gate, no other request makes a step until the bind
\* has ended, and when it has completed the request goes on to handleConnect.
C31_State ==
  roomId = NoId =>
    /\ sessions = {} /\ roomPromise = "null" /\ hydr = "none" /\ gets = 0
    /\ \A r \in Reqs : ~socket[r] /\ status[r] # 101 /\ ~Registered(r)

C31_Step ==
  \A r \in Reqs :
    /\ (pc[r] = "new" /\ reqKind'[r] = "connect" /\ pc'[r] # "new" /\ roomId = NoId) =>
         /\ pc'[r] = "binding" /\ gate' = r /\ status'[r] = 0
         /\ roomId' = NoId /\ roomPromise' = "null"
    /\ pc[r] = "binding" =>
         /\ gate = r
         /\ \A q \in Reqs \ {r} : pc'[q] # pc[q] => pc'[q] = "aborted"
    /\ (pc[r] = "bound" /\ pc'[r] \notin {"bound", "aborted"}) =>
         /\ roomId = reqRoom[r] /\ roomId' = roomId
         /\ \/ reqSid[r] = NoSession /\ status'[r] = 400
            \/ reqSid[r] # NoSession /\ pc'[r] = "awaitRoom" /\ socket'[r]

C31_NoAdmissionBeforeBind == []C31_State /\ [][C31_Step]_vars

C31_Witness ==
  \E r \in Reqs :
    /\ FirstConnect(r) /\ pc[r] = "done"
    /\ status[r] = 101 /\ Registered(r)
    /\ roomId = reqRoom[r] /\ storage = reqRoom[r]

\* C32: this.roomId, when set, is the value under the durable key; the
\* step in which the durable put of a bind is rejected leaves this.roomId and
\* the durable key unset and the gate open, and the next connect request can
\* then be delivered and binds its own roomId.
C32_State ==
  /\ roomId # NoId => storage # NoId /\ roomId = storage
  /\ (roomId = NoId /\ gate = 0 /\ ~MicrotaskPending) =>
       \A q \in Reqs, rid \in RoomIds :
         NextReq(q) => ENABLED ConnectStart(q, rid, SessionId(q))

C32_Step ==
  \A r \in Reqs :
    /\ BindFail(r) =>
         /\ roomId' = NoId /\ storage' = NoId /\ gate' = 0
         /\ pc'[r] = "aborted" /\ status'[r] = 0
    /\ (pc[r] = "binding" /\ pc'[r] = "bound") =>
         /\ storage' = reqRoom[r] /\ roomId' = reqRoom[r] /\ gate' = 0

C32_PersistBeforePublish == []C32_State /\ [][C32_Step]_vars

C32_Witness ==
  \E r, q \in Reqs :
    /\ r < q /\ restarts = 0
    /\ reqKind[r] = "connect" /\ pc[r] = "aborted" /\ reqRoom[r] # reqRoom[q]
    /\ Connect(q) /\ status[q] = 101
    /\ roomId = reqRoom[q] /\ storage = reqRoom[q]

\* C33: the step that replaces the instance sets this.roomId to the value
\* under the durable key and handles no request; so whenever the durable key
\* is written this.roomId equals it and no bind is in progress, and in an
\* instance that started bound no connect request enters the bind or changes
\* the durable key, whatever roomId its path carries.
C33_State ==
  storage # NoId =>
    /\ roomId = storage /\ gate = 0
    /\ \A r \in Reqs : pc[r] # "binding"

C33_Step ==
  /\ restarts' # restarts =>
       /\ roomId' = storage /\ storage' = storage
       /\ UNCHANGED <<status, regEngine, servedId, socket, r2>>
       /\ \A r \in Reqs : pc'[r] \in {pc[r], "aborted"}
  /\ \A r \in Reqs :
       (storage # NoId /\ pc[r] = "new" /\ reqKind'[r] = "connect" /\ pc'[r] # "new") =>
         /\ storage' = storage /\ roomId' = storage
         /\ pc'[r] \in {"awaitRoom", "done"}
         /\ pc'[r] = "awaitRoom" => servedId'[r] = storage /\ hydrKey' = RoomKey(storage)

C33_ReloadOnRestart == []C33_State /\ [][C33_Step]_vars

C33_Witness ==
  \E r, q \in Reqs :
    /\ restarts = 1
    /\ Registered(q) /\ regEngine[q].inst = 0 /\ storage = reqRoom[q]
    /\ Registered(r) /\ regEngine[r].inst = 1 /\ status[r] = 101
    /\ reqRoom[r] # storage /\ servedId[r] = storage /\ roomId = storage

\* C34: a request whose handleConnect created and accepted a WebSocketPair
\* and whose handling has ended has its socket registered with the room and
\* was answered 101.
C34_AcceptedIsRegistered ==
  \A r \in Reqs : (socket[r] /\ pc[r] = "done") =>
    Registered(r) /\ status[r] = 101

\* The drag state of a component as it is rendered.
DragOf(c) == IF c = "toolbar" THEN toolbar.dragState ELSE sidebar.dragState

\* The listeners of a component that are attached.
Listening(c) ==
  IF c = "toolbar" THEN toolbar.move \/ toolbar.key ELSE sidebar.move \/ sidebar.key

Components == {"toolbar", "sidebar"}

\* C35: in the Toolbar and in the sidebar the drag state enters pointing_item
\* only from idle and only by a pointer-down on a draggable item, enters
\* dragging only from pointing_item and only by a pointer move farther than
\* 10px from the start position, a shape is created only by a pointer-up
\* received in the dragging state, a gesture creates at most one shape, and
\* after every pointer-up the state is idle.
C35_State ==
  /\ Len(pointer.created) <= 1
  /\ pointer.event.type = "up" =>
       /\ \A c \in Components : DragOf(c) = DragIdle
       /\ sidebar.queued = NoUpdate

C35_Step ==
  /\ \A c \in Components :
       /\ (DragOf(c)' # DragOf(c) /\ DragOf(c)'.name = "pointing_item") =>
            /\ DragOf(c).name = "idle"
            /\ pointer'.event.type = "down" /\ pointer'.down = c
            /\ pointer'.event.arg \in DRAGGABLE_COMPONENTS \cup SearchResults
            /\ DragOf(c)' = Pointing(pointer'.event.arg, pointer'.event.at)
       /\ (DragOf(c).name # "dragging" /\ DragOf(c)'.name = "dragging") =>
            DragOf(c).name = "pointing_item"
  /\ (toolbar.dragState.name = "pointing_item" /\ toolbar'.dragState.name = "dragging") =>
       /\ pointer'.event.type = "move"
       /\ DistOver(pointer'.event.at, toolbar.dragState.startPosition, DRAG_DIST)
  /\ (sidebar'.queued # sidebar.queued /\ sidebar'.queued.name = "dragging") =>
       /\ pointer'.event.type = "move"
       /\ sidebar.dragState.name = "pointing_item" =>
            DistOver(pointer'.event.at, sidebar.dragState.startPosition, DRAG_DIST)
  /\ (sidebar.dragState.name = "pointing_item" /\ sidebar'.dragState.name = "dragging") =>
       /\ pointer'.event.type = "render"
       /\ sidebar'.dragState = sidebar.queued
  /\ pointer'.created \notin {pointer.created, <<>>} =>
       /\ pointer'.event.type = "up"
       /\ pointer.down \in Components
       /\ DragOf(pointer.down).name = "dragging"
       /\ pointer'.created = Append(pointer.created, DragOf(pointer.down).item)

C35_DragStateMachine == []C35_State /\ [][C35_Step]_vars

\* A drag out of the Toolbar ended in a checklist shape.
C35_Witness ==
  /\ pointer.event.type = "up" /\ pointer.created = <<"checklist">>
  /\ toolbar.dragState = DragIdle

\* C36: Escape pressed in the dragging state is heard; it leaves the state
\* idle and the pointermove and keydown listeners removed, and until the next
\* pointer-down, so through the pointer-up that follows, no shape is created.
C36_EscapeCancels ==
  /\ \A c \in Components : DragOf(c).name = "dragging" =>
       IF c = "toolbar" THEN toolbar.move /\ toolbar.key ELSE sidebar.move /\ sidebar.key
  /\ pointer.cancelled # "none" =>
       /\ \A c \in Components : DragOf(c) = DragIdle /\ ~Listening(c)
       /\ sidebar.queued = NoUpdate
       /\ pointer.created = <<>>

\* A drag out of the sidebar was cancelled and the pointer has gone up since.
C36_Witness ==
  /\ pointer.cancelled = "sidebar"
  /\ pointer.event.type = "up" /\ pointer.down = "none"

\* C37: a timer is pending only while the component is mounted, the editor
\* has not been observed and the counter is at most maxPolls; a poll up to
\* the maxPolls-th that finds the editor stops the polling; the timeout is
\* reported once, when the counter exceeds maxPolls; unmounting leaves no
\* timer pending; once no timer is pending none is scheduled again; and
\* eventually no timer is pending any more.
C37_State ==
  /\ poll.timer =>
       /\ poll.mounted = "yes" /\ ~poll.editor
       /\ poll.pollCount \in 1..maxPolls
  /\ poll.errors = IF poll.pollCount > maxPolls THEN 1 ELSE 0
  /\ poll.pollCount <= maxPolls + 1
  /\ poll.editor => poll.tldrawEditor

C37_Step ==
  /\ poll'.mounted = "gone" => ~poll'.timer
  /\ (poll.mounted # "no" /\ ~poll.timer) =>
       ~poll'.timer /\ poll'.pollCount = poll.pollCount /\ poll'.errors = poll.errors
  /\ (poll.tldrawEditor /\ poll'.pollCount \in (1..maxPolls) \ {poll.pollCount}) =>
       poll'.editor /\ ~poll'.timer

C37_PollingTerminates == []C37_State /\ [][C37_Step]_vars /\ <>[](~poll.timer)

\* The polling gave up after maxPolls polls.
C37_Witness ==
  /\ poll.mounted = "yes" /\ ~poll.timer /\ ~poll.editor
  /\ poll.pollCount = maxPolls + 1 /\ poll.errors = 1

\* C38: the items list and the checkedItems list of a checklist shape have
\* the same length.
C38_SameLength ==
  checklist # NoShape => Len(checklist.items) = Len(checklist.checkedItems)

====
